---- MODULE Spec2Model ----
(***************************************************************************)
(* Model of the azure-naming service: the claim pipeline                   *)
(* (core/name_service.py), the ClaimedNames / AuditLogs storage adapters,  *)
(* the release route (app/routes/names.py), the authorisation helper       *)
(* (utils/auth.py) and the user-defaults service (utils/user_settings.py). *)
(*                                                                         *)
(* Strings that the code converts (lower(), strip(), startswith, join) are *)
(* sequences of one-character strings, so that the conversions are         *)
(* computed and not assumed.  Python dicts are functions whose DOMAIN is   *)
(* the set of keys present.                                                *)
(***************************************************************************)
EXTENDS Integers, Sequences, FiniteSets, TLC

VARIABLES
    claims,      \* ClaimedNames table: <<PartitionKey, RowKey>> -> entity
    audit,       \* AuditLogs table, in insertion order
    proc,        \* per worker: the request it is handling and its locals
    resp,        \* the latest response sent, with what its request did
    nreq,        \* number of requests accepted so far
    permanent,   \* InMemorySettingsRepository._permanent
    sessions,    \* InMemorySettingsRepository._sessions
    last,        \* the latest service call and what it returned
    providers,   \* slug_service._providers, the provider chain
    layers,      \* the rule files under JsonRuleProvider._path
    loaded,      \* JsonRuleProvider._default_rule and ._resource_rules
    reloading,   \* the reload() call in progress: its position and locals
    lookup,      \* the get_rule() call in progress: its position and locals
    scan,        \* the get_slug() call in progress: its list iterator and locals
    touch,       \* the get_defaults() call in progress: the session it read
    slug_table   \* SlugMappings table: RowKey -> entity

pipeline_vars == <<claims, audit, proc, resp, nreq, permanent, sessions, touch>>
slug_vars == <<providers, scan, slug_table>>
rule_vars == <<layers, loaded, reloading, lookup>>
vars == <<claims, audit, proc, resp, nreq, permanent, sessions, last,
          providers, layers, loaded, reloading, lookup, scan, touch, slug_table>>

(***************************************************************************)
(* Bounds of the model.                                                    *)
(***************************************************************************)
MaxRequests == 3
MaxTime == 3

(***************************************************************************)
(* Strings.                                                                *)
(***************************************************************************)
None == <<"<None>">>

UpperChars == <<"A","B","C","D","E","F","G","H","I","J","K","L","M",
                "N","O","P","Q","R","S","T","U","V","W","X","Y","Z">>
LowerChars == <<"a","b","c","d","e","f","g","h","i","j","k","l","m",
                "n","o","p","q","r","s","t","u","v","w","x","y","z">>
Digits == {"0","1","2","3","4","5","6","7","8","9"}
Whitespace == {" ", "\t", "\n", "\r"}

IsUpperChar(c) == \E i \in 1..Len(UpperChars) : UpperChars[i] = c
IsLowerChar(c) == \E i \in 1..Len(LowerChars) : LowerChars[i] = c

LowerChar(c) ==
    IF IsUpperChar(c)
    THEN LowerChars[CHOOSE i \in 1..Len(UpperChars) : UpperChars[i] = c]
    ELSE c

\* str.lower()
Lower(s) == [i \in 1..Len(s) |-> LowerChar(s[i])]

\* str.startswith(prefix)
StartsWith(s, p) == Len(s) >= Len(p) /\ SubSeq(s, 1, Len(p)) = p

\* s[len(prefix):]
DropPrefix(s, p) == SubSeq(s, Len(p) + 1, Len(s))

RECURSIVE StripLeft(_)
StripLeft(s) ==
    IF s # <<>> /\ Head(s) \in Whitespace THEN StripLeft(Tail(s)) ELSE s

RECURSIVE StripRight(_)
StripRight(s) ==
    IF s # <<>> /\ s[Len(s)] \in Whitespace
    THEN StripRight(SubSeq(s, 1, Len(s) - 1))
    ELSE s

\* str.strip()
Strip(s) == StripRight(StripLeft(s))

\* "-".join(filter(None, parts))
RECURSIVE JoinNonEmpty(_)
JoinNonEmpty(parts) ==
    IF parts = <<>> THEN <<>>
    ELSE LET rest == JoinNonEmpty(Tail(parts))
         IN  IF Head(parts) = <<>> THEN rest
             ELSE IF rest = <<>> THEN Head(parts)
             ELSE Head(parts) \o <<"-">> \o rest

\* dict.get(key): None when the key is absent
Get(d, k) == IF k \in DOMAIN d THEN d[k] ELSE None

\* Python truthiness of an optional string
Truthy(v) == v # None /\ v # <<>>

\* dict with one key set (d[k] = v)
Put(d, k, v) == [x \in DOMAIN d \cup {k} |-> IF x = k THEN v ELSE d[x]]

\* dict without the given keys
Without(d, ks) == [x \in DOMAIN d \ ks |-> d[x]]

EmptyDict == [x \in {} |-> None]


(***************************************************************************)
(* String literals of the modelled inputs.                                 *)
(***************************************************************************)
S_storage_account == <<"s","t","o","r","a","g","e","_","a","c","c","o","u","n","t">>
S_Storage_Account == <<"S","t","o","r","a","g","e","_","A","c","c","o","u","n","t">>
S_vm == <<"v","m">>
S_st == <<"s","t">>
S_wus2 == <<"w","u","s","2">>
S_WUS2 == <<"W","U","S","2">>
S_dev == <<"d","e","v">>
S_01 == <<"0","1">>
S_sanmar == <<"s","a","n","m","a","r">>
S_alice == <<"a","l","i","c","e">>
S_Bob == <<"B","o","b">>
S_root == <<"r","o","o","t">>
S_claimed == <<"c","l","a","i","m","e","d">>
S_released == <<"r","e","l","e","a","s","e","d">>
S_not_specified == <<"n","o","t"," ","s","p","e","c","i","f","i","e","d">>
S_typo == <<"t","y","p","o">>
S_s1 == <<"s","1">>
S_wus2devst == <<"w","u","s","2","d","e","v","s","t">>
\* a custom field value: O, single quote, form feed, B, tab, x
S_quoted == <<"O","'","\f","B","\t","x">>
S_truncated == <<".",".",".","[","t","r","u","n","c","a","t","e","d","]">>

(***************************************************************************)
(* Naming rules: core/naming_rules.py.                                     *)
(***************************************************************************)
DEFAULT_SEGMENTS ==
    <<"slug", "system_short", "domain", "subdomain", "environment", "region", "index">>

DEFAULT_RULE ==
    [segments |-> DEFAULT_SEGMENTS, max_length |-> 80,
     require_sanmar_prefix |-> FALSE, name_template |-> None]

STORAGE_ACCOUNT_RULE ==
    [segments |-> DEFAULT_SEGMENTS, max_length |-> 24,
     require_sanmar_prefix |-> TRUE, name_template |-> None]

\* RESOURCE_RULES of the DictionaryRuleProvider installed at import time
RESOURCE_RULES == [k \in {S_storage_account} |-> STORAGE_ACCOUNT_RULE]

\* DictionaryRuleProvider.get_rule through load_naming_rule
load_naming_rule(resource_type) ==
    LET key == Lower(resource_type)
    IN  IF key \in DOMAIN RESOURCE_RULES THEN RESOURCE_RULES[key] ELSE DEFAULT_RULE

(***************************************************************************)
(* Slug lookup: adapters/slug.py behind core/slug_service.py.              *)
(***************************************************************************)
\* rows of the SlugMappings table: FullName -> Slug
SlugMappings == [k \in {S_storage_account} |-> S_st]

ReplaceChar(s, from, to) == [i \in 1..Len(s) |-> IF s[i] = from THEN to ELSE s[i]]

\* canonical variant of _normalise_resource_type
CanonicalResourceType(resource_type) == Lower(ReplaceChar(resource_type, " ", "_"))

\* get_slug: [ok |-> TRUE, slug |-> s] or the ValueError of the only provider
get_slug(resource_type) ==
    LET canonical == CanonicalResourceType(resource_type)
    IN  IF canonical \in DOMAIN SlugMappings /\ SlugMappings[canonical] # <<>>
        THEN [ok |-> TRUE, slug |-> SlugMappings[canonical]]
        ELSE [ok |-> FALSE, slug |-> <<>>]

(***************************************************************************)
(* Name builder (segment path) and validator: core/name_generator.py,      *)
(* core/validation.py.                                                     *)
(***************************************************************************)
\* the part a segment contributes; <<>> when the segment is skipped
SegmentPart(segment, region, environment, slug, optional_inputs) ==
    IF segment = "region" THEN region
    ELSE IF segment = "environment" THEN environment
    ELSE IF segment = "slug" THEN slug
    ELSE IF segment \in DOMAIN optional_inputs THEN optional_inputs[segment]
    ELSE <<>>

\* _apply_prefix that leaves every name as it is
_apply_prefix_never(name, rule) == name

_apply_prefix(name, rule) ==
    IF rule.require_sanmar_prefix /\ ~StartsWith(name, S_sanmar)
    THEN S_sanmar \o <<"-">> \o name
    ELSE name

\* a name template is the sequence of its literal pieces and its named
\* placeholders {name}
Field(name) == [kind |-> "field", name |-> name, text |-> <<>>]
Literal(text) == [kind |-> "literal", name |-> "", text |-> text]

HasField(template, name) ==
    \E i \in 1..Len(template) : template[i] = Field(name)

\* _template_context: the core values, then optional_inputs over them, then
\* a "<key>_segment" entry for every key of optional_inputs
_template_context(region, environment, slug, optional_inputs, require_prefix) ==
    LET core == [region |-> region, environment |-> environment, slug |-> slug,
                 sanmar_prefix |-> IF require_prefix THEN S_sanmar ELSE <<>>]
        updated == [k \in DOMAIN core \cup DOMAIN optional_inputs |->
                      IF k \in DOMAIN optional_inputs THEN optional_inputs[k]
                      ELSE core[k]]
        segment_keys == {k \o "_segment" : k \in DOMAIN optional_inputs}
    IN  [k \in DOMAIN updated \cup segment_keys |->
           IF k \in segment_keys
           THEN LET key == CHOOSE q \in DOMAIN optional_inputs : q \o "_segment" = k
                IN  IF Truthy(optional_inputs[key])
                    THEN <<"-">> \o optional_inputs[key] ELSE <<>>
           ELSE updated[k]]

\* _normalise_context: None becomes ""
_normalise_context(context) ==
    [k \in DOMAIN context |-> IF context[k] = None THEN <<>> ELSE context[k]]

RECURSIVE format_map(_, _)
\* template.format_map(context) with a _SafeFormatDict: a placeholder the
\* context lacks is __missing__ and renders as ""
format_map(template, context) ==
    IF template = <<>> THEN <<>>
    ELSE (IF Head(template).kind = "literal" THEN Head(template).text
          ELSE IF Head(template).name \in DOMAIN context
          THEN context[Head(template).name]
          ELSE <<>>) \o format_map(Tail(template), context)

RECURSIVE StripHyphens(_)
\* rendered.strip("-")
StripHyphens(s) ==
    IF s # <<>> /\ Head(s) = "-" THEN StripHyphens(Tail(s))
    ELSE IF s # <<>> /\ s[Len(s)] = "-" THEN StripHyphens(SubSeq(s, 1, Len(s) - 1))
    ELSE s

\* hyphen runs are left as rendered
CollapseHyphens_none(s) == s

RECURSIVE CollapseHyphens(_)
\* re.sub(r"-{2,}", "-", ...)
CollapseHyphens(s) ==
    IF Len(s) < 2 THEN s
    ELSE IF s[1] = "-" /\ s[2] = "-" THEN CollapseHyphens(Tail(s))
    ELSE <<Head(s)>> \o CollapseHyphens(Tail(s))

\* the template path up to name = rendered.lower()
TemplateName(region, environment, slug, rule, optional_inputs) ==
    LET context == _normalise_context(
                      _template_context(region, environment, slug, optional_inputs,
                                        rule.require_sanmar_prefix))
        rendered == format_map(rule.name_template, context)
    IN  Lower(CollapseHyphens(StripHyphens(rendered)))

\* build_name: the template path when the rule has a template, else the
\* segment path
build_name(region, environment, slug, rule, optional_inputs) ==
    IF Truthy(rule.name_template)
    THEN LET name == TemplateName(region, environment, slug, rule, optional_inputs)
         IN  IF /\ rule.require_sanmar_prefix
                /\ ~HasField(rule.name_template, "sanmar_prefix")
                /\ ~StartsWith(name, S_sanmar)
             THEN S_sanmar \o <<"-">> \o name
             ELSE name
    ELSE LET parts == [i \in 1..Len(rule.segments) |->
                         SegmentPart(rule.segments[i], region, environment, slug,
                                     optional_inputs)]
         IN  _apply_prefix(Lower(JoinNonEmpty(parts)), rule)

\* str.islower(): no upper-case character and at least one lower-case one
IsLower(s) ==
    /\ \A i \in 1..Len(s) : ~IsUpperChar(s[i])
    /\ \E i \in 1..Len(s) : IsLowerChar(s[i])

NameChar(c) == IsLowerChar(c) \/ c \in Digits \/ c = "-"

\* validate_name passes (raises no ValueError)
\* a validator that lets every name pass
validate_name_any(name, rule) == TRUE

validate_name(name, rule) ==
    /\ Len(name) <= rule.max_length
    /\ IsLower(name)
    /\ name # <<>>
    /\ \A i \in 1..Len(name) : NameChar(name[i])

\* the checks the ValueError of validate_name reports: those of the first
\* raise reached, none when the name passes
validate_name_reports(name, rule) ==
    IF Len(name) > rule.max_length THEN {"length"}
    ELSE IF ~IsLower(name) THEN {"lowercase"}
    ELSE IF name = <<>> \/ \E i \in 1..Len(name) : ~NameChar(name[i])
    THEN {"characters"}
    ELSE {}

(***************************************************************************)
(* Metadata sanitisation: core/name_service.py.                            *)
(***************************************************************************)
MaxValueLength == 32767

\* the characters that line 106 turns into a space
KeptControlChars == {"\t", "\n", "\r"}
\* of the control characters line 102 removes, the form feed stands for all
RemovedControlChars == {"\f"}

_sanitize_metadata_value(value) ==
    LET kept == SelectSeq(value, LAMBDA c : c \notin RemovedControlChars)
        spaced == [i \in 1..Len(kept) |->
                     IF kept[i] \in KeptControlChars THEN " " ELSE kept[i]]
        cut == IF Len(spaced) > MaxValueLength
               THEN SubSeq(spaced, 1, MaxValueLength) \o S_truncated
               ELSE spaced
    IN  Strip(cut)

\* metadata keys of the model are the fixed names below; none of them has a
\* character that _sanitize_metadata_key removes or replaces
_sanitize_metadata_dict(metadata) ==
    [k \in {x \in DOMAIN metadata : metadata[x] # None} |->
        _sanitize_metadata_value(metadata[k])]


(***************************************************************************)
(* User-defaults service: utils/user_settings.py                           *)
(* (UserSettingsService over InMemorySettingsRepository).                  *)
(***************************************************************************)
\* session_timeout, in hours; model time counts hours
SessionTimeout == 1

\* dict.update: the entries of b override those of a
Update(a, b) == [k \in DOMAIN a \cup DOMAIN b |-> IF k \in DOMAIN b THEN b[k] ELSE a[k]]

\* UserSettingsService._normalise: None values are dropped
Normalise(values) == [k \in {x \in DOMAIN values : values[x] # None} |-> values[k]]

get_permanent(perm, user_id) == IF user_id \in DOMAIN perm THEN perm[user_id] ELSE EmptyDict

HasSession(sess, user_id, session_id) == <<user_id, session_id>> \in DOMAIN sess

set_session(sess, user_id, session_id, values, last_seen) ==
    [k \in DOMAIN sess \cup {<<user_id, session_id>>} |->
        IF k = <<user_id, session_id>>
        THEN [values |-> values, last_seen |-> last_seen]
        ELSE sess[k]]

delete_session(sess, user_id, session_id) ==
    [k \in DOMAIN sess \ {<<user_id, session_id>>} |-> sess[k]]

\* the expiry test with >= in place of >
SessionExpired_at_timeout(last_seen, now) == now - last_seen >= SessionTimeout

\* the expiry test of get_defaults
SessionExpired(last_seen, now) == now - last_seen > SessionTimeout

\* the dict get_defaults returns
get_defaults(perm, sess, user_id, session_id, now) ==
    LET defaults == get_permanent(perm, user_id)
    IN  IF Truthy(session_id) /\ HasSession(sess, user_id, session_id)
        THEN LET session == sess[<<user_id, session_id>>]
             IN  IF SessionExpired(session.last_seen, now)
                 THEN defaults
                 ELSE Update(defaults, session.values)
        ELSE defaults

\* get_defaults without the touch: a session read in time is left as stored
SessionsAfterGet_no_touch(sess, user_id, session_id, now) ==
    IF Truthy(session_id) /\ HasSession(sess, user_id, session_id)
    THEN IF SessionExpired(sess[<<user_id, session_id>>].last_seen, now)
         THEN delete_session(sess, user_id, session_id)
         ELSE sess
    ELSE sess

\* the repository's sessions after get_defaults: evicted, or touched
SessionsAfterGet(sess, user_id, session_id, now) ==
    IF Truthy(session_id) /\ HasSession(sess, user_id, session_id)
    THEN LET session == sess[<<user_id, session_id>>]
         IN  IF SessionExpired(session.last_seen, now)
             THEN delete_session(sess, user_id, session_id)
             ELSE set_session(sess, user_id, session_id, session.values, now)
    ELSE sess

\* the merge loop writing every default over the payload
apply_defaults_overwrite(payload, defaults) == Update(payload, defaults)

\* the merge loop of apply_defaults over the dict get_defaults returned
apply_defaults(payload, defaults) ==
    [k \in DOMAIN payload \cup DOMAIN defaults |->
        IF k \in DOMAIN defaults /\ (k \notin DOMAIN payload \/ payload[k] \in {None, <<>>})
        THEN defaults[k]
        ELSE payload[k]]

(***************************************************************************)
(* Authorisation: utils/auth.py.                                           *)
(***************************************************************************)
ROLE_HIERARCHY == <<"reader", "contributor", "admin">>

\* require_role lets the caller through
RoleAllowed(roles, min_role) ==
    \E i \in 1..Len(ROLE_HIERARCHY), j \in 1..Len(ROLE_HIERARCHY) :
        /\ ROLE_HIERARCHY[i] = min_role
        /\ j >= i
        /\ ROLE_HIERARCHY[j] \in roles

is_authorized(user_roles, user_id, claimed_by, released_by) ==
    \/ "admin" \in user_roles
    \/ "manager" \in user_roles
    \/ Lower(user_id) = Lower(IF Truthy(claimed_by) THEN claimed_by ELSE <<>>)
    \/ Lower(user_id) = Lower(IF Truthy(released_by) THEN released_by ELSE <<>>)


(***************************************************************************)
(* ClaimedNames table: adapters/storage.py.  An entity is                  *)
(* [InUse, etag, props]; props holds its string properties.  The           *)
(* ClaimedAt / ReleasedAt timestamps are not kept.                         *)
(***************************************************************************)
PartitionKey(region, environment) == Lower(region) \o <<"-">> \o Lower(environment)

EntityKey(region, environment, name) == <<PartitionKey(region, environment), name>>

\* table.get_entity finds the row (does not raise ResourceNotFoundError)
EntityExists(table, key) == key \in DOMAIN table

\* the uniqueness check never finding the name
check_name_exists_never(table, region, environment, name) == FALSE

check_name_exists(table, region, environment, name) ==
    LET key == EntityKey(region, environment, name)
    IN  EntityExists(table, key) /\ table[key].InUse

\* table.create_entity accepts the insert: it raises ResourceExistsError
\* when a row with the key is stored
CreateEntityAccepted(table, key) == ~EntityExists(table, key)

\* update_entity(mode=REPLACE, match_condition="MatchIfNotModified") accepts
\* the write: the row is unmodified since it was read
UpdateEntityAccepted(table, key, etag) ==
    EntityExists(table, key) /\ table[key].etag = etag

WriteEntity(table, key, entity) ==
    [k \in DOMAIN table \cup {key} |-> IF k = key THEN entity ELSE table[k]]

\* the entity claim_name builds (lines 110-120)
ClaimEntity(resource_type, claimed_by, metadata) ==
    [InUse |-> TRUE,
     etag |-> 1,
     props |-> Update([k \in {"ResourceType", "ClaimedBy"} |->
                          IF k = "ResourceType" THEN resource_type ELSE claimed_by],
                      metadata)]

(***************************************************************************)
(* The claim pipeline up to the uniqueness check:                          *)
(* core/name_service.py, generate_and_claim_name and _normalise_payload.   *)
(***************************************************************************)
_REQUIRED_FIELDS == <<"resource_type", "region", "environment">>
_FIELD_ALIASES == {"system", "subsystem", "index"}
SessionFields == {"session_id", "sessionId"}
CoreFields == {"resource_type", "region", "environment", "system", "system_short",
               "subsystem", "index", "sessionId", "session_id"}

\* key[0].upper() + key[1:] for the payload keys of the model
CapFirst(key) ==
    CASE key = "resourceType" -> "ResourceType"
      [] key = "resource_type" -> "Resource_type"
      [] key = "region" -> "Region"
      [] key = "environment" -> "Environment"
      [] key = "index" -> "Index"
      [] key = "system" -> "System"
      [] key = "subsystem" -> "Subsystem"
      [] key = "claimedBy" -> "ClaimedBy"
      [] key = "owner" -> "Owner"
      [] OTHER -> key

\* payload.get("session_id") or payload.get("sessionId"), as a session id
PayloadSession(payload) ==
    IF Truthy(Get(payload, "session_id")) THEN payload["session_id"]
    ELSE Get(payload, "sessionId")

\* line 181-182: resourceType is copied when resource_type is not a key
AliasResourceType(payload) ==
    IF "resourceType" \in DOMAIN payload /\ "resource_type" \notin DOMAIN payload
    THEN Put(payload, "resource_type", payload["resourceType"])
    ELSE payload

RECURSIVE SelectSeq2(_, _)
SelectSeq2(seq, keep) ==
    IF seq = <<>> THEN <<>>
    ELSE IF Head(seq) \in keep THEN <<Head(seq)>> \o SelectSeq2(Tail(seq), keep)
    ELSE SelectSeq2(Tail(seq), keep)

\* the message naming only the first missing field
MissingFields_first(normalised_payload) ==
    LET all == SelectSeq2(_REQUIRED_FIELDS,
                          {f \in {"resource_type", "region", "environment"} :
                               ~Truthy(Get(normalised_payload, f))})
    IN  IF all = <<>> THEN <<>> ELSE <<Head(all)>>

\* line 184: the required fields the message names, in order
MissingFields(normalised_payload) ==
    SelectSeq2(_REQUIRED_FIELDS,
               {f \in {"resource_type", "region", "environment"} :
                    ~Truthy(Get(normalised_payload, f))})

\* lines 190-194
OptionalSegments(normalised_payload) ==
    [k \in {f \in _FIELD_ALIASES : Truthy(Get(normalised_payload, f))} |->
        Lower(normalised_payload[k])]

\* lines 245-275: the sanitised metadata stored with the claim
EntityMetadata(normalised_payload, slug, requested_by) ==
    LET system_value == IF Truthy(Get(normalised_payload, "system"))
                        THEN Get(normalised_payload, "system")
                        ELSE Get(normalised_payload, "system_short")
        lowered(v) == IF Truthy(v) THEN Lower(v) ELSE None
        base == [k \in {"Slug", "Subsystem", "System", "Index", "RequestedBy"} |->
                    CASE k = "Slug" -> slug
                      [] k = "Subsystem" -> lowered(Get(normalised_payload, "subsystem"))
                      [] k = "System" -> lowered(system_value)
                      [] k = "Index" -> lowered(Get(normalised_payload, "index"))
                      [] OTHER -> requested_by]
        kept == [k \in {x \in DOMAIN base : Truthy(base[x])} |-> base[k]]
        custom == {k \in DOMAIN normalised_payload :
                      /\ k \notin CoreFields
                      /\ normalised_payload[k] # None
                      /\ CapFirst(k) \notin DOMAIN kept}
        extra == [e \in {CapFirst(k) : k \in custom} |->
                    Lower(normalised_payload[CHOOSE k \in custom : CapFirst(k) = e])]
    IN  _sanitize_metadata_dict(Update(kept, extra))

\* lines 288-313: the sanitised metadata of the "claimed" audit record
AuditMetadata(normalised_payload, resource_type, region, environment, slug) ==
    LET keys == {k \in DOMAIN normalised_payload :
                    k \notin SessionFields /\ normalised_payload[k] # None}
        \* a payload of the model never carries two different non-blank values
        \* under resourceType and resource_type, so the order of the two
        \* assignments to ResourceType does not show
        from_payload == [e \in {CapFirst(k) : k \in keys \ {"resource_type"}} |->
                            Lower(normalised_payload[CHOOSE k \in keys : CapFirst(k) = e])]
        named == IF "resource_type" \in keys
                 THEN Put(from_payload, "ResourceType", Lower(normalised_payload["resource_type"]))
                 ELSE from_payload
        core == [k \in {"ResourceType", "Region", "Environment"} |->
                    CASE k = "ResourceType" -> resource_type
                      [] k = "Region" -> region
                      [] OTHER -> environment]
    IN  _sanitize_metadata_dict(Put(Update(core, named), "Slug", slug))

\* f"{resource_type}:{region}-{environment}"
ClaimNote(resource_type, region, environment) ==
    resource_type \o <<":">> \o region \o <<"-">> \o environment

\* Everything generate_and_claim_name computes from the merged payload
\* before it touches the ClaimedNames table.  failed names the exception of
\* the first step that raises ("none" when every step passes).
ClaimPlan(payload_with_defaults, requested_by) ==
    LET normalised == AliasResourceType(payload_with_defaults)
        missing == MissingFields(normalised)
    IN  IF missing # <<>>
        THEN [failed |-> "InvalidRequestError", missing |-> missing, calls |-> <<>>,
              resource_type |-> <<>>, region |-> <<>>, environment |-> <<>>,
              slug |-> <<>>, name |-> <<>>, meta |-> EmptyDict,
              audit_meta |-> EmptyDict]
        ELSE
        LET resource_type == Lower(normalised["resource_type"])
            region == Lower(normalised["region"])
            environment == Lower(normalised["environment"])
            rule == load_naming_rule(resource_type)
            found == get_slug(resource_type)
            name == build_name(region, environment, found.slug, rule,
                               OptionalSegments(normalised))
            result(failed, calls, nm) ==
                [failed |-> failed, missing |-> <<>>, calls |-> calls,
                 resource_type |-> resource_type, region |-> region,
                 environment |-> environment, slug |-> found.slug, name |-> nm,
                 meta |-> EntityMetadata(normalised, found.slug, requested_by),
                 audit_meta |-> AuditMetadata(normalised, resource_type, region,
                                              environment, found.slug)]
        IN  IF ~found.ok
            THEN result("ValueError", <<"load_naming_rule", "get_slug">>, <<>>)
            ELSE IF ~validate_name(name, rule)
            THEN result("ValueError",
                        <<"load_naming_rule", "get_slug", "build_name", "validate_name">>, name)
            ELSE result("none",
                        <<"load_naming_rule", "get_slug", "build_name", "validate_name",
                          "check_name_exists">>, name)

\* app/errors.py: the HTTP status handle_name_generation_error answers
handle_name_generation_error(exc) ==
    IF exc = "InvalidRequestError" THEN 400
    ELSE IF exc = "NameConflictError" THEN 409
    ELSE IF exc = "ValueError" THEN 400
    ELSE 500


(***************************************************************************)
(* Inputs of the model.                                                    *)
(***************************************************************************)
Procs == {1, 2}

\* a dict from a sequence of <<key, value>> pairs
MkDict(pairs) ==
    [k \in {pairs[i][1] : i \in 1..Len(pairs)} |->
        pairs[CHOOSE i \in 1..Len(pairs) : pairs[i][1] = k][2]]

\* the authenticated (user id, roles) pairs require_role can hand over; an
\* empty user id is a verified token without an "oid" claim
Callers ==
    { [user |-> S_alice, roles |-> {"contributor"}],
      [user |-> S_Bob, roles |-> {"contributor"}],
      [user |-> <<>>, roles |-> {"contributor"}],
      [user |-> S_root, roles |-> {"admin"}],
      [user |-> S_alice, roles |-> {"reader"}] }

CorePayloads ==
    { MkDict(rt \o rg \o en) :
        rt \in { <<>>, << <<"resource_type", S_storage_account>> >> },
        rg \in { <<>>, << <<"region", S_WUS2>> >> },
        en \in { <<>>, << <<"environment", S_dev>> >> } }

ExtraPayloads ==
    { MkDict(<< <<"resourceType", S_Storage_Account>>, <<"region", S_wus2>>,
                <<"environment", S_dev>> >>),
      MkDict(<< <<"resource_type", <<>> >>, <<"resourceType", S_Storage_Account>>,
                <<"region", S_wus2>>, <<"environment", S_dev>> >>),
      MkDict(<< <<"resource_type", S_storage_account>>, <<"region", <<>> >>,
                <<"environment", None>> >>),
      MkDict(<< <<"resource_type", S_vm>>, <<"region", S_wus2>>,
                <<"environment", S_dev>> >>),
      MkDict(<< <<"resource_type", S_storage_account>>, <<"region", S_wus2>>,
                <<"environment", <<" ">> >> >>),
      MkDict(<< <<"resource_type", S_storage_account>>, <<"region", S_wus2>>,
                <<"environment", S_dev>>, <<"claimedBy", S_Bob>> >>),
      MkDict(<< <<"resource_type", S_storage_account>>, <<"region", S_wus2>>,
                <<"session_id", S_s1>> >>),
      MkDict(<< <<"resource_type", S_storage_account>>, <<"region", S_wus2>>,
                <<"environment", S_dev>>, <<"owner", S_quoted>> >>) }

ClaimPayloads == CorePayloads \cup ExtraPayloads

\* the claim payloads sent while requests run side by side: one that
\* generates S_name, the same with a custom claimedBy field, an empty one
RacePayloads ==
    { MkDict(<< <<"resource_type", S_storage_account>>, <<"region", S_WUS2>>,
                <<"environment", S_dev>> >>),
      MkDict(<< <<"resource_type", S_storage_account>>, <<"region", S_wus2>>,
                <<"environment", S_dev>>, <<"claimedBy", S_Bob>> >>),
      EmptyDict }

\* the callers of the requests served one at a time
OneWorkerCallers ==
    { [user |-> S_alice, roles |-> {"contributor"}],
      [user |-> S_alice, roles |-> {"reader"}] }

\* the name the storage_account rule gives for wus2 / dev
S_name == S_sanmar \o <<"-">> \o S_st \o <<"-">> \o S_dev \o <<"-">> \o S_wus2

ReleaseRequests ==
    { MkDict(<< <<"name", S_name>>, <<"region", S_WUS2>>, <<"environment", S_dev>> >>),
      MkDict(<< <<"name", S_name>> >>),
      MkDict(<< <<"name", S_wus2devst>> >>),
      MkDict(<< <<"reason", S_typo>> >>) }

\* what can go wrong in write_audit_log: nothing; create_table_if_not_exists
\* or get_table_client of the AuditLogs table raising an AzureError (the
\* table service cannot be reached); create_entity raising an AzureError
AuditFaults == {"none", "table_unavailable", "insert_failed"}

\* the permanent defaults set while claims are served
PipelineDefaults == { MkDict(<< <<"environment", S_dev>> >>) }

\* ClaimPlan for every merged payload and caller of the model; f @@ <<>> is
\* f, tabulated
PlanTable ==
    [k \in { apply_defaults(Without(payload, SessionFields), d) :
                payload \in ClaimPayloads, d \in {EmptyDict} \cup PipelineDefaults }
           \X { c.user : c \in Callers } |->
        ClaimPlan(k[1], k[2])] @@ <<>>

(***************************************************************************)
(* State of a worker, and the response it sends.                           *)
(***************************************************************************)
NoEntity == [InUse |-> FALSE, etag |-> 0, props |-> EmptyDict]

IdleProc ==
    [pc |-> "idle", id |-> 0, op |-> "none", user |-> <<>>, roles |-> {},
     merged |-> EmptyDict, missing |-> <<>>, calls |-> <<>>,
     key |-> <<>>, resource_type |-> <<>>, note |-> <<>>,
     meta |-> EmptyDict, audit_meta |-> EmptyDict, checked |-> NoEntity,
     snap |-> NoEntity, persisted |-> FALSE]

NoResponse ==
    [id |-> 0, op |-> "none", missing |-> <<>>, calls |-> <<>>, key |-> <<>>,
     persisted |-> FALSE, exc |-> "none", status |-> 0]

\* the response to the request of rec: the exception that ended it ("none"
\* when it returned) and the HTTP status
Response(rec, exc, status) ==
    [id |-> rec.id, op |-> rec.op, missing |-> rec.missing, calls |-> rec.calls,
     key |-> rec.key, persisted |-> rec.persisted, exc |-> exc, status |-> status]

\* worker p answers and is free again
Finish(p, rec, exc, status) ==
    /\ proc' = [proc EXCEPT ![p] = IdleProc]
    /\ resp' = Response(rec, exc, status)

\* the host hands a request to the first idle worker
Free(p) ==
    /\ nreq < MaxRequests
    /\ proc[p].pc = "idle"
    /\ \A q \in Procs : proc[q].pc = "idle" => p <= q

\* the latest call on the user-defaults service: its arguments, what it
\* returned, whether it raised, and whether it logged a session as expired
\* JsonRuleProvider.__init__ before its first reload()
NotLoaded == [default_rule |-> <<>>, resource_rules |-> <<>>]

\* no reload() call is in progress
NoReload == [pc |-> "idle"]

\* no get_rule() call is in progress
NoLookup == [pc |-> "idle"]

\* no get_slug() call is in progress
NoScan == [pc |-> "idle"]

\* no get_defaults() call is between its read and its write of the session
NoTouch == [pc |-> "idle"]

NoCall ==
    [op |-> "none", session |-> None, now |-> 0, payload |-> EmptyDict,
     result |-> EmptyDict, exc |-> "none", expired |-> FALSE]

Init ==
    /\ claims = [k \in {} |-> NoEntity]
    /\ audit = <<>>
    /\ proc = [p \in Procs |-> IdleProc]
    /\ resp = NoResponse
    /\ nreq = 0
    /\ permanent = [u \in {} |-> EmptyDict]
    /\ sessions = [k \in {} |-> [values |-> EmptyDict, last_seen |-> 0]]
    /\ last = NoCall
    /\ providers = <<"table">>
    /\ layers = {}
    /\ loaded = NotLoaded
    /\ reloading = NoReload
    /\ lookup = NoLookup
    /\ scan = NoScan
    /\ touch = NoTouch
    /\ slug_table = <<>>

(***************************************************************************)
(* Audit log: adapters/audit_logs.py.                                      *)
(***************************************************************************)
AuditEntry(name, user, action, note, metadata) ==
    [PartitionKey |-> name, User |-> Lower(user), Action |-> Lower(action),
     Note |-> note, props |-> metadata]

\* write_audit_log returns normally: the RuntimeError of get_table_client
\* and the AzureError of create_entity are caught, any other exception of
\* get_table_client is not
AuditReturns(fault) == fault # "table_unavailable"

\* the AuditLogs table after write_audit_log
AuditAfter(log, fault, entry) == IF fault = "none" THEN Append(log, entry) ELSE log

(***************************************************************************)
(* POST /claim: app/routes/names.py _handle_claim_request around           *)
(* generate_and_claim_name.  A step ends at each call to the table         *)
(* service; steps of different workers interleave.                         *)
(***************************************************************************)
\* require_role, apply_defaults, _normalise_payload, rule, slug, build_name,
\* validate_name, check_name_exists
ClaimBegin(p, caller, payload, now, lookup_failed) ==
    /\ Free(p)
    /\ nreq' = nreq + 1
    /\ UNCHANGED <<claims, audit, permanent, touch, slug_vars, rule_vars>>
    /\ last' = IF lookup_failed
               THEN [NoCall EXCEPT !.op = "apply_defaults", !.exc = "Exception",
                                   !.session = PayloadSession(payload),
                                   !.payload = Without(payload, SessionFields)]
               ELSE last
    /\ LET req == [IdleProc EXCEPT !.id = nreq + 1, !.op = "claim",
                                   !.user = caller.user, !.roles = caller.roles]
       IN  IF ~RoleAllowed(caller.roles, "contributor")
           THEN /\ Finish(p, req, "AuthError", 403)
                /\ UNCHANGED sessions
           ELSE
           LET session_id == PayloadSession(payload)
               scrubbed == Without(payload, SessionFields)
               defaults == get_defaults(permanent, sessions, caller.user, session_id, now)
               merged == IF lookup_failed THEN scrubbed
                         ELSE apply_defaults(scrubbed, defaults)
               plan == PlanTable[<<merged, caller.user>>]
               key == EntityKey(plan.region, plan.environment, plan.name)
               started == [req EXCEPT !.merged = merged, !.missing = plan.missing,
                                      !.calls = plan.calls]
           IN  /\ sessions' = IF lookup_failed THEN sessions
                               ELSE SessionsAfterGet(sessions, caller.user, session_id, now)
               /\ IF plan.failed # "none"
                  THEN Finish(p, started, plan.failed,
                              handle_name_generation_error(plan.failed))
                  ELSE IF check_name_exists(claims, plan.region, plan.environment, plan.name)
                  THEN Finish(p, [started EXCEPT !.key = key], "NameConflictError",
                              handle_name_generation_error("NameConflictError"))
                  ELSE /\ proc' = [proc EXCEPT ![p] =
                              [started EXCEPT !.pc = "claim_get", !.key = key,
                                              !.checked = IF EntityExists(claims, key)
                                                          THEN claims[key]
                                                          ELSE NoEntity,
                                              !.resource_type = plan.resource_type,
                                              !.note = ClaimNote(plan.resource_type,
                                                                 plan.region,
                                                                 plan.environment),
                                              !.meta = plan.meta,
                                              !.audit_meta = plan.audit_meta,
                                              !.calls = Append(plan.calls, "claim_name")]]
                       /\ UNCHANGED resp

\* a claim request whose defaults are found
ClaimStart(p, caller, payload, now) == ClaimBegin(p, caller, payload, now, FALSE)

\* lines 205-215, the except branch: the settings repository (table storage
\* when configured) raises while the defaults are looked up; a read that
\* raises stores nothing and neither does a write that raises
ClaimStartDefaultsFailed(p, caller, payload) ==
    /\ RoleAllowed(caller.roles, "contributor")
    /\ ClaimBegin(p, caller, payload, 0, TRUE)

\* claim_name, lines 95-108: get_entity and the InUse test
ClaimGet(p) ==
    /\ proc[p].pc = "claim_get"
    /\ UNCHANGED <<claims, audit, nreq, permanent, sessions, last, touch, slug_vars, rule_vars>>
    /\ IF EntityExists(claims, proc[p].key) /\ claims[proc[p].key].InUse
       THEN Finish(p, proc[p], "ResourceExistsError",
                   handle_name_generation_error("ResourceExistsError"))
       ELSE /\ proc' = [proc EXCEPT ![p].pc = "claim_create",
                                     ![p].snap = IF EntityExists(claims, proc[p].key)
                                                 THEN claims[proc[p].key]
                                                 ELSE NoEntity]
            /\ UNCHANGED resp

\* claim_name, lines 110-130: create_entity
ClaimCreate(p) ==
    /\ proc[p].pc = "claim_create"
    /\ UNCHANGED <<audit, nreq, permanent, sessions, last, touch, slug_vars, rule_vars>>
    /\ LET called == [proc[p] EXCEPT !.calls = Append(proc[p].calls, "create_entity")]
       IN  IF CreateEntityAccepted(claims, proc[p].key)
           THEN /\ claims' = WriteEntity(claims, proc[p].key,
                                ClaimEntity(proc[p].resource_type, proc[p].user,
                                            proc[p].meta))
                /\ proc' = [proc EXCEPT ![p] =
                       [called EXCEPT !.pc = "claim_audit", !.persisted = TRUE]]
                /\ UNCHANGED resp
           ELSE /\ UNCHANGED claims
                /\ Finish(p, called, "ResourceExistsError",
                          handle_name_generation_error("ResourceExistsError"))

\* write_audit_log(name, requested_by, "claimed", ...) and the 201 response
ClaimAudit(p, fault) ==
    /\ proc[p].pc = "claim_audit"
    /\ UNCHANGED <<claims, nreq, permanent, sessions, last, touch, slug_vars, rule_vars>>
    /\ audit' = AuditAfter(audit, fault,
                    AuditEntry(proc[p].key[2], proc[p].user, S_claimed,
                               proc[p].note, proc[p].audit_meta))
    /\ LET called == [proc[p] EXCEPT !.calls = Append(proc[p].calls, "write_audit_log")]
       IN  IF AuditReturns(fault)
           THEN Finish(p, called, "none", 201)
           ELSE Finish(p, called, "AzureError",
                       handle_name_generation_error("AzureError"))

(***************************************************************************)
(* POST /release: app/routes/names.py release_name.                        *)
(***************************************************************************)
S_wus == <<"w","u","s">>
S_eus1 == <<"e","u","s","1">>
S_eus == <<"e","u","s">>
possible_regions == <<S_wus2, S_wus, S_eus1, S_eus>>
possible_envs == << <<"p","r","d">>, <<"s","t","g">>, <<"t","s","t">>,
                    <<"u","a","t">>, <<"a","l","t">>, S_dev >>

\* lines 116-125: the first (region, environment) pair the name starts with
ExtractFromName(name) ==
    LET hits == {ij \in (1..Len(possible_regions)) \X (1..Len(possible_envs)) :
                    /\ StartsWith(name, possible_regions[ij[1]])
                    /\ StartsWith(DropPrefix(name, possible_regions[ij[1]]),
                                  possible_envs[ij[2]])}
    IN  IF hits = {} THEN [found |-> FALSE, region |-> <<>>, environment |-> <<>>]
        ELSE LET first == CHOOSE ij \in hits :
                             \A other \in hits :
                                 \/ ij[1] < other[1]
                                 \/ (ij[1] = other[1] /\ ij[2] <= other[2])
             IN  [found |-> TRUE, region |-> possible_regions[first[1]],
                  environment |-> possible_envs[first[2]]]

\* (value or "").lower()
LowerOrEmpty(v) == IF Truthy(v) THEN Lower(v) ELSE <<>>

\* str.split("-")
RECURSIVE SplitDash(_, _)
SplitDash(s, current) ==
    IF s = <<>> THEN <<current>>
    ELSE IF Head(s) = "-" THEN <<current>> \o SplitDash(Tail(s), <<>>)
    ELSE SplitDash(Tail(s), Append(current, Head(s)))

\* lines 165-189: the sanitised metadata of the "released" audit record
ReleaseAuditMetadata(partition_key, entity) ==
    LET parts == SplitDash(partition_key, <<>>)
        raw == [k \in {"Region", "Environment", "ResourceType", "Slug", "Project",
                       "Purpose", "Subsystem", "System", "Index"} |->
                  CASE k = "Region" -> IF partition_key # <<>> THEN parts[1] ELSE None
                    [] k = "Environment" -> IF partition_key # <<>> THEN parts[2] ELSE None
                    [] OTHER -> Get(entity.props, k)]
        kept == [k \in {x \in DOMAIN raw : Truthy(raw[x])} |-> raw[k]]
    IN  _sanitize_metadata_dict(kept)

\* lines 149-152: the entity as the handler changes its copy
ReleasedEntity(entity, user_id, reason) ==
    [entity EXCEPT !.InUse = FALSE,
                   !.props = Put(Put(entity.props, "ReleasedBy", user_id),
                                 "ReleaseReason", reason)]

\* lines 97-133: the table key of the request, <<>> when the handler
\* answers 400 before it has one
ReleaseKey(data) ==
    LET name == LowerOrEmpty(Get(data, "name"))
        given_region == LowerOrEmpty(Get(data, "region"))
        given_environment == LowerOrEmpty(Get(data, "environment"))
        extracted == ExtractFromName(name)
        use_extracted == (given_region = <<>> \/ given_environment = <<>>)
                         /\ extracted.found
        region == IF use_extracted THEN extracted.region ELSE given_region
        environment == IF use_extracted THEN extracted.environment
                       ELSE given_environment
    IN  IF name = <<>> \/ region = <<>> \/ environment = <<>>
        THEN <<>>
        ELSE <<region \o <<"-">> \o environment, name>>

\* ReleaseKey for every release request of the model, computed once
ReleaseKeyTable == [data \in ReleaseRequests |-> ReleaseKey(data)] @@ <<>>

\* lines 82-143: require_role, the request fields, get_entity, is_authorized
ReleaseStart(p, caller, data) ==
    /\ Free(p)
    /\ nreq' = nreq + 1
    /\ UNCHANGED <<claims, audit, permanent, sessions, last, touch, slug_vars, rule_vars>>
    /\ LET req == [IdleProc EXCEPT !.id = nreq + 1, !.op = "release",
                                   !.user = caller.user, !.roles = caller.roles]
           reason == IF "reason" \in DOMAIN data THEN data["reason"] ELSE S_not_specified
           key == ReleaseKeyTable[data]
       IN  IF ~RoleAllowed(caller.roles, "contributor")
           THEN Finish(p, req, "AuthError", 403)
           ELSE IF key = <<>>
           THEN Finish(p, req, "none", 400)
           ELSE IF ~EntityExists(claims, key)
           THEN Finish(p, [req EXCEPT !.key = key], "ResourceNotFoundError", 404)
           ELSE IF ~is_authorized(caller.roles, caller.user,
                                  Get(claims[key].props, "ClaimedBy"),
                                  Get(claims[key].props, "ReleasedBy"))
           THEN Finish(p, [req EXCEPT !.key = key], "none", 403)
           ELSE /\ proc' = [proc EXCEPT ![p] =
                       [req EXCEPT !.pc = "rel_update", !.key = key, !.note = reason,
                                   !.snap = ReleasedEntity(claims[key], caller.user,
                                                           reason)]]
                /\ UNCHANGED resp

\* what str(exc) of a rejected update_entity can be: a text with "etag" or
\* "precondition" in it, or one without; the source does not fix the text
RejectionTexts == {"precondition", "other"}

\* lines 158-163: the status answered for an exception of update_entity
ReleaseErrorStatus(text) == IF text = "precondition" THEN 409 ELSE 500

\* lines 154-163: update_entity under the etag read with the entity
ReleaseUpdate(p, text) ==
    /\ proc[p].pc = "rel_update"
    /\ UNCHANGED <<audit, nreq, permanent, sessions, last, touch, slug_vars, rule_vars>>
    /\ LET called == [proc[p] EXCEPT !.calls = Append(proc[p].calls, "update_entity")]
       IN  IF UpdateEntityAccepted(claims, proc[p].key, proc[p].snap.etag)
           THEN /\ claims' = WriteEntity(claims, proc[p].key,
                                [proc[p].snap EXCEPT !.etag = proc[p].snap.etag + 1])
                /\ proc' = [proc EXCEPT ![p] =
                       [called EXCEPT !.pc = "rel_audit", !.persisted = TRUE]]
                /\ UNCHANGED resp
           ELSE /\ UNCHANGED claims
                /\ Finish(p, called, "UpdateRejected", ReleaseErrorStatus(text))

\* lines 165-192: write_audit_log(name, user_id, "released", reason, ...);
\* the route catches nothing there, so what write_audit_log raises ends the
\* request with the host's 500
ReleaseAudit(p, fault) ==
    /\ proc[p].pc = "rel_audit"
    /\ UNCHANGED <<claims, nreq, permanent, sessions, last, touch, slug_vars, rule_vars>>
    /\ audit' = AuditAfter(audit, fault,
                    AuditEntry(proc[p].key[2], proc[p].user, S_released, proc[p].note,
                               ReleaseAuditMetadata(proc[p].key[1], proc[p].snap)))
    /\ LET called == [proc[p] EXCEPT !.calls = Append(proc[p].calls, "write_audit_log")]
       IN  IF AuditReturns(fault)
           THEN Finish(p, called, "none", 200)
           ELSE Finish(p, called, "AzureError", 500)

\* set_permanent_defaults of a user between requests
PipelineSetDefaults(user_id, values) ==
    /\ nreq < MaxRequests
    /\ user_id \notin DOMAIN permanent
    /\ permanent' = Put(permanent, user_id, Normalise(values))
    /\ UNCHANGED <<claims, audit, proc, resp, nreq, sessions, last, touch, slug_vars, rule_vars>>

NextClaims ==
    \/ \E p \in Procs, caller \in Callers, payload \in RacePayloads :
          ClaimStart(p, caller, payload, 0)
    \/ \E p \in Procs : ClaimGet(p)
    \/ \E p \in Procs : ClaimCreate(p)
    \/ \E p \in Procs, fault \in AuditFaults : ClaimAudit(p, fault)
    \/ \E p \in Procs, caller \in Callers, data \in ReleaseRequests :
          ReleaseStart(p, caller, data)
    \/ \E p \in Procs, text \in RejectionTexts : ReleaseUpdate(p, text)
    \/ \E p \in Procs, fault \in AuditFaults : ReleaseAudit(p, fault)

Spec == Init /\ [][NextClaims]_vars

\* claim requests of every payload shape, served one at a time by worker 1,
\* with the caller's permanent defaults set in between
NextOneWorker ==
    \/ \E caller \in OneWorkerCallers, payload \in ClaimPayloads :
          ClaimStart(1, caller, payload, 0)
    \/ \E caller \in OneWorkerCallers, payload \in ClaimPayloads :
          ClaimStartDefaultsFailed(1, caller, payload)
    \/ ClaimGet(1)
    \/ ClaimCreate(1)
    \/ \E fault \in AuditFaults : ClaimAudit(1, fault)
    \/ \E values \in PipelineDefaults : PipelineSetDefaults(S_alice, values)

SpecOneWorker == Init /\ [][NextOneWorker]_vars

(***************************************************************************)
(* The user-defaults service on its own: utils/user_settings.py,           *)
(* UserSettingsService over InMemorySettingsRepository.  Calls are made    *)
(* one after the other; now is the caller's clock reading, which the       *)
(* service takes as an argument.                                           *)
(***************************************************************************)
S_prd == <<"p","r","d">>
S_tst == <<"t","s","t">>

DefaultsUsers == {S_alice}
DefaultsSessions == {S_s1}

\* values for set_permanent_defaults
PermanentChoices ==
    { EmptyDict,
      MkDict(<< <<"environment", S_prd>> >>),
      MkDict(<< <<"environment", S_prd>>, <<"region", S_eus>> >>),
      MkDict(<< <<"environment", None>>, <<"region", S_eus>> >>) }

\* values for set_session_defaults
SessionChoices ==
    { EmptyDict,
      MkDict(<< <<"environment", S_tst>> >>),
      MkDict(<< <<"environment", <<>> >> >>),
      MkDict(<< <<"region", S_wus>>, <<"environment", None>> >>) }

\* payloads for apply_defaults
DefaultsPayloads ==
    { EmptyDict,
      MkDict(<< <<"environment", S_dev>> >>),
      MkDict(<< <<"environment", <<>> >> >>),
      MkDict(<< <<"environment", None>>, <<"region", S_wus2>> >>),
      MkDict(<< <<"region", <<>> >>, <<"resource_type", S_vm>> >>) }

\* the session get_defaults finds stored and past its timeout
FindsExpired(sess, user_id, session_id, now) ==
    /\ Truthy(session_id)
    /\ HasSession(sess, user_id, session_id)
    /\ SessionExpired(sess[<<user_id, session_id>>].last_seen, now)

SetPermanentDefaults(user_id, values) ==
    /\ permanent' = Put(permanent, user_id, Normalise(values))
    /\ last' = [NoCall EXCEPT !.op = "set_permanent_defaults"]
    /\ UNCHANGED <<claims, audit, proc, resp, nreq, sessions, touch, slug_vars, rule_vars>>

SetSessionDefaults(user_id, session_id, values, now) ==
    /\ IF ~Truthy(session_id)
       THEN /\ last' = [NoCall EXCEPT !.op = "set_session_defaults",
                                      !.exc = "ValueError"]
            /\ UNCHANGED sessions
       ELSE /\ sessions' = set_session(sessions, user_id, session_id,
                                       Normalise(values), now)
            /\ last' = [NoCall EXCEPT !.op = "set_session_defaults",
                                      !.session = session_id, !.now = now]
    /\ UNCHANGED <<claims, audit, proc, resp, nreq, permanent, touch, slug_vars, rule_vars>>

ClearSession(user_id, session_id) ==
    /\ sessions' = delete_session(sessions, user_id, session_id)
    /\ last' = [NoCall EXCEPT !.op = "clear_session", !.session = session_id]
    /\ UNCHANGED <<claims, audit, proc, resp, nreq, permanent, touch, slug_vars, rule_vars>>

GetDefaults(user_id, session_id, now) ==
    /\ sessions' = SessionsAfterGet(sessions, user_id, session_id, now)
    /\ last' = [NoCall EXCEPT
                  !.op = "get_defaults", !.session = session_id, !.now = now,
                  !.result = get_defaults(permanent, sessions, user_id, session_id, now),
                  !.expired = FindsExpired(sessions, user_id, session_id, now)]
    /\ UNCHANGED <<claims, audit, proc, resp, nreq, permanent, touch, slug_vars, rule_vars>>

ApplyDefaults(user_id, session_id, payload, now) ==
    /\ sessions' = SessionsAfterGet(sessions, user_id, session_id, now)
    /\ last' = [NoCall EXCEPT
                  !.op = "apply_defaults", !.session = session_id, !.now = now,
                  !.payload = payload,
                  !.result = apply_defaults(payload,
                                 get_defaults(permanent, sessions, user_id,
                                              session_id, now)),
                  !.expired = FindsExpired(sessions, user_id, session_id, now)]
    /\ UNCHANGED <<claims, audit, proc, resp, nreq, permanent, touch, slug_vars, rule_vars>>

NextDefaults ==
    \/ \E u \in DefaultsUsers, values \in PermanentChoices :
          SetPermanentDefaults(u, values)
    \/ \E u \in DefaultsUsers, sid \in DefaultsSessions \cup {<<>>},
          values \in SessionChoices, now \in 0..MaxTime :
          SetSessionDefaults(u, sid, values, now)
    \/ \E u \in DefaultsUsers, sid \in DefaultsSessions : ClearSession(u, sid)
    \/ \E u \in DefaultsUsers, sid \in DefaultsSessions \cup {None},
          now \in 0..MaxTime :
          GetDefaults(u, sid, now)
    \/ \E u \in DefaultsUsers, sid \in DefaultsSessions \cup {None},
          payload \in DefaultsPayloads, now \in 0..MaxTime :
          ApplyDefaults(u, sid, payload, now)

SpecDefaults == Init /\ [][NextDefaults]_vars

\* get_defaults, lines 188-190: repository.get_permanent and
\* repository.get_session, each under the repository's lock.  A call that
\* finds no session to evict or touch is over with the read.
GetDefaultsRead(user_id, session_id, now) ==
    /\ touch.pc = "idle"
    /\ Truthy(session_id)
    /\ HasSession(sessions, user_id, session_id)
    /\ touch' = [pc |-> "read", user_id |-> user_id, session_id |-> session_id,
                 now |-> now, defaults |-> get_permanent(permanent, user_id),
                 values |-> sessions[<<user_id, session_id>>].values,
                 last_seen |-> sessions[<<user_id, session_id>>].last_seen]
    /\ UNCHANGED <<claims, audit, proc, resp, nreq, permanent, sessions, last,
                   slug_vars, rule_vars>>

\* get_defaults, lines 191-203: the session read earlier is evicted, or
\* written back with the new last-seen time, under the lock again
GetDefaultsWrite ==
    /\ touch.pc = "read"
    /\ LET expired == SessionExpired(touch.last_seen, touch.now)
       IN  /\ sessions' = IF expired
                          THEN delete_session(sessions, touch.user_id, touch.session_id)
                          ELSE set_session(sessions, touch.user_id, touch.session_id,
                                           touch.values, touch.now)
           /\ last' = [NoCall EXCEPT
                         !.op = "get_defaults", !.session = touch.session_id,
                         !.now = touch.now,
                         !.result = IF expired THEN touch.defaults
                                    ELSE Update(touch.defaults, touch.values),
                         !.expired = expired]
    /\ touch' = NoTouch
    /\ UNCHANGED <<claims, audit, proc, resp, nreq, permanent, slug_vars, rule_vars>>

\* get_defaults on one thread, its read and its write as two steps, while
\* another thread sets or clears the session
NextDefaultsRace ==
    \/ \E u \in DefaultsUsers, sid \in DefaultsSessions,
          values \in SessionChoices, now \in 0..MaxTime :
          SetSessionDefaults(u, sid, values, now)
    \/ \E u \in DefaultsUsers, sid \in DefaultsSessions : ClearSession(u, sid)
    \/ \E u \in DefaultsUsers, sid \in DefaultsSessions, now \in 0..MaxTime :
          GetDefaultsRead(u, sid, now)
    \/ GetDefaultsWrite

SpecDefaultsRace == Init /\ [][NextDefaultsRace]_vars

(***************************************************************************)
(* The slug service and its provider chain: core/slug_service.py.          *)
(* A provider is named; what it does for a resource type is its outcome:   *)
(* a returned slug (possibly empty) or a raised exception.                 *)
(***************************************************************************)
MaxChain == 3

S_custom == <<"c","u","s","t","o","m">>
S_cs == <<"c","s">>
S_stg == <<"s","t","g">>

\* "table" is TableSlugProvider; "dummy" is the provider of the unit test
\* (one known type, ValueError otherwise); "override" knows another slug for
\* storage accounts and returns "" otherwise; "blank" always returns "";
\* "broken" always raises.
ProviderNames == {"table", "dummy", "override", "blank", "broken"}

SlugResourceTypes == {S_storage_account, S_custom, S_typo}

Returns(slug) == [kind |-> "return", slug |-> slug, exc |-> None]
\* an exception is the pair of its type and the component that raised it
Raises(type, by) == [kind |-> "raise", slug |-> None, exc |-> <<type, by>>]

\* provider.get_slug(resource_type)
ProviderOutcome(provider, resource_type) ==
    CASE provider = "table" ->
            IF get_slug(resource_type).ok
            THEN Returns(get_slug(resource_type).slug)
            ELSE Raises("ValueError", "table")
      [] provider = "dummy" ->
            IF resource_type = S_custom THEN Returns(S_cs)
            ELSE Raises("ValueError", "dummy")
      [] provider = "override" ->
            IF resource_type = S_storage_account THEN Returns(S_stg)
            ELSE Returns(<<>>)
      [] provider = "blank" -> Returns(<<>>)
      [] provider = "broken" -> Raises("RuntimeError", "broken")

\* the ValueError get_slug raises itself when no provider raised
SlugNotFound == <<"ValueError", "slug_service">>

\* the loop's state before the first provider
ScanStart == [returned |-> FALSE, slug |-> None, last_error |-> None, calls |-> <<>>]

\* one iteration of get_slug's loop that returns the slug of every provider
\* with one, so that the last one wins
ProviderStep_last_wins(acc, provider, resource_type) ==
    LET out == ProviderOutcome(provider, resource_type)
        called == [acc EXCEPT !.calls = Append(acc.calls, provider)]
    IN  IF out.kind = "raise"
        THEN [called EXCEPT !.last_error = out.exc]
        ELSE IF Truthy(out.slug)
             THEN [called EXCEPT !.returned = TRUE, !.slug = out.slug]
             ELSE called

\* one iteration of get_slug's loop that keeps the first error it caught
ProviderStep_first_error(acc, provider, resource_type) ==
    IF acc.returned THEN acc
    ELSE LET out == ProviderOutcome(provider, resource_type)
             called == [acc EXCEPT !.calls = Append(acc.calls, provider)]
         IN  IF out.kind = "raise"
             THEN IF acc.last_error = None
                  THEN [called EXCEPT !.last_error = out.exc]
                  ELSE called
             ELSE IF Truthy(out.slug)
                  THEN [called EXCEPT !.returned = TRUE, !.slug = out.slug]
                  ELSE called

\* one iteration of get_slug's loop; nothing runs after the return
ProviderStep(acc, provider, resource_type) ==
    IF acc.returned THEN acc
    ELSE LET out == ProviderOutcome(provider, resource_type)
             called == [acc EXCEPT !.calls = Append(acc.calls, provider)]
         IN  IF out.kind = "raise"
             THEN [called EXCEPT !.last_error = out.exc]
             ELSE IF Truthy(out.slug)
                  THEN [called EXCEPT !.returned = TRUE, !.slug = out.slug]
                  ELSE called

RECURSIVE ScanProviders(_, _, _)
\* for provider in _providers: ...
ScanProviders(acc, chain, resource_type) ==
    IF chain = <<>> THEN acc
    ELSE ScanProviders(ProviderStep(acc, Head(chain), resource_type),
                       Tail(chain), resource_type)

\* slug_service.get_slug: the slug returned or the exception raised, with the
\* providers it called in call order
slug_service_get_slug(chain, resource_type) ==
    LET acc == ScanProviders(ScanStart, chain, resource_type)
    IN  [returned |-> acc.returned,
         slug |-> acc.slug,
         exc |-> IF acc.returned THEN None
                 ELSE IF acc.last_error # None THEN acc.last_error
                 ELSE SlugNotFound,
         calls |-> acc.calls]

\* the chains a caller hands to set_slug_providers
ProviderChains ==
    {<<>>} \cup {<<a>> : a \in ProviderNames}
           \cup {<<a, b>> : a \in ProviderNames, b \in ProviderNames}
           \cup {<<a, b, c>> : a \in ProviderNames, b \in ProviderNames,
                               c \in ProviderNames}

NoSlugCall ==
    [op |-> "none", resource_type |-> None, chain |-> <<>>, returned |-> FALSE,
     slug |-> None, exc |-> None, calls |-> <<>>]

\* set_slug_providers(providers)
SetSlugProviders(new_chain) ==
    /\ IF new_chain = <<>>
       THEN /\ UNCHANGED <<providers, scan>>
            /\ last' = [NoSlugCall EXCEPT !.op = "set_slug_providers",
                          !.exc = <<"ValueError", "slug_service">>]
       ELSE /\ providers' = new_chain
            \* _providers now names a new list; a loop in progress keeps
            \* the list it started on
            /\ scan' = IF scan.pc = "idle" THEN scan
                       ELSE [scan EXCEPT !.shared = FALSE]
            /\ last' = [NoSlugCall EXCEPT !.op = "set_slug_providers"]
    /\ UNCHANGED <<pipeline_vars, slug_table, rule_vars>>

\* register_slug_provider(provider, prepend=...)
RegisterSlugProvider(provider, prepend) ==
    /\ Len(providers) < MaxChain
    /\ providers' = IF prepend THEN <<provider>> \o providers
                    ELSE Append(providers, provider)
    \* insert and append change the list _providers names; a loop in progress
    \* over that same list sees the change
    /\ scan' = IF scan.pc # "idle" /\ scan.shared
               THEN [scan EXCEPT !.list = providers']
               ELSE scan
    /\ last' = [NoSlugCall EXCEPT !.op = "register_slug_provider"]
    /\ UNCHANGED <<pipeline_vars, slug_table, rule_vars>>

\* get_slug(resource_type)
GetSlug(resource_type) ==
    /\ last' = LET r == slug_service_get_slug(providers, resource_type)
               IN  [op |-> "get_slug", resource_type |-> resource_type,
                    chain |-> providers, returned |-> r.returned,
                    slug |-> r.slug, exc |-> r.exc, calls |-> r.calls]
    /\ UNCHANGED <<pipeline_vars, slug_vars, rule_vars>>

\* get_slug, line 98: the for statement takes an iterator over the list
\* _providers names at that moment
GetSlugEnter(resource_type) ==
    /\ scan.pc = "idle"
    /\ scan' = [pc |-> "iterating", resource_type |-> resource_type,
                began |-> providers, list |-> providers, shared |-> TRUE,
                index |-> 0, acc |-> ScanStart]
    /\ UNCHANGED <<pipeline_vars, providers, slug_table, rule_vars, last>>

\* get_slug, lines 98-107: one turn of the loop, or its end.  The list
\* iterator yields list[index] while index is below the present length of
\* its list.
GetSlugNext ==
    /\ scan.pc = "iterating"
    /\ LET more == scan.index < Len(scan.list)
           acc == IF more
                  THEN ProviderStep(scan.acc, scan.list[scan.index + 1], scan.resource_type)
                  ELSE scan.acc
       IN  IF more /\ ~acc.returned
           THEN /\ scan' = [scan EXCEPT !.index = scan.index + 1, !.acc = acc]
                /\ UNCHANGED last
           ELSE /\ scan' = NoScan
                /\ last' = [op |-> "get_slug", resource_type |-> scan.resource_type,
                            chain |-> scan.began, returned |-> acc.returned,
                            slug |-> acc.slug,
                            exc |-> IF acc.returned THEN None
                                    ELSE IF acc.last_error # None THEN acc.last_error
                                    ELSE SlugNotFound,
                            calls |-> acc.calls]
    /\ UNCHANGED <<pipeline_vars, providers, slug_table, rule_vars>>

NextSlug ==
    \/ \E new_chain \in ProviderChains : SetSlugProviders(new_chain)
    \/ \E provider \in ProviderNames, prepend \in BOOLEAN :
          RegisterSlugProvider(provider, prepend)
    \/ \E resource_type \in SlugResourceTypes : GetSlug(resource_type)

SpecSlug == Init /\ [][NextSlug]_vars

\* the chains installed while lookups are in progress
RaceChains == { <<"table">>, <<"blank", "table">>, <<"broken", "blank">> }

\* get_slug on one thread, one loop turn at a time, while another thread
\* replaces the chain or registers a provider
NextSlugRace ==
    \/ \E new_chain \in RaceChains : SetSlugProviders(new_chain)
    \/ \E provider \in {"override", "blank"}, prepend \in BOOLEAN :
          RegisterSlugProvider(provider, prepend)
    \/ \E resource_type \in {S_storage_account, S_typo} : GetSlugEnter(resource_type)
    \/ GetSlugNext

SpecSlugRace == Init /\ [][NextSlugRace]_vars

(***************************************************************************)
(* The layered JSON rule provider: providers/json_rules.py.                *)
(* An optional rule is <<>> (None) or <<rule>>.  A rule carries the        *)
(* identity of the object _to_rule built: the position of the layer it     *)
(* came from and the key it was built for.  A rule definition (config) is  *)
(* a dict of the fields it sets.                                           *)
(***************************************************************************)
S_default == <<"d","e","f","a","u","l","t">>
S_alpha == <<"a","l","p","h","a">>
S_base == <<"b","a","s","e">>
S_corp == <<"c","o","r","p">>
S_overlay == <<"o","v","e","r","l","a","y">>
S_disabled == <<"d","i","s","a","b","l","e","d">>

\* the rule files that may lie under rules_path: the base file and the
\* overlay of the unit test (with its key in upper case), a lower file that
\* has resources only, a middle file that changes the default and names a
\* resource "default", and a disabled file
RuleFiles ==
    { [name |-> S_base, priority |-> 0, enabled |-> TRUE,
       default_config |-> [segments |-> <<"slug", "region">>, max_length |-> 64,
                           require_sanmar_prefix |-> FALSE],
       resources_config |-> << <<S_storage_account,
                                 [segments |-> <<"slug", "region", "environment">>,
                                  max_length |-> 24]>> >>],
      [name |-> S_overlay, priority |-> 10, enabled |-> TRUE,
       default_config |-> EmptyDict,
       resources_config |-> << <<S_Storage_Account,
                                 [max_length |-> 30,
                                  require_sanmar_prefix |-> TRUE]>> >>],
      [name |-> S_alpha, priority |-> 0, enabled |-> TRUE,
       default_config |-> EmptyDict,
       resources_config |-> << <<S_alpha, [segments |-> <<"slug">>]>> >>],
      [name |-> S_corp, priority |-> 5, enabled |-> TRUE,
       default_config |-> [segments |-> <<>>, require_sanmar_prefix |-> TRUE,
                           name_template |-> <<Field("slug"), Literal(<<"-">>), Field("region")>>],
       resources_config |-> << <<S_default, [max_length |-> 10]>> >>],
      [name |-> S_disabled, priority |-> 999, enabled |-> FALSE,
       default_config |-> [segments |-> <<"slug">>, max_length |-> 10],
       resources_config |-> <<>>] }

RuleFile(name) == CHOOSE f \in RuleFiles : f.name = name

\* what rules_path holds at one time or another
RuleDirectories ==
    { {}, {RuleFile(S_overlay)}, {RuleFile(S_disabled)},
      {RuleFile(S_alpha), RuleFile(S_base)},
      {RuleFile(S_base)}, {RuleFile(S_base), RuleFile(S_disabled)},
      {RuleFile(S_base), RuleFile(S_overlay)},
      {RuleFile(S_base), RuleFile(S_corp)},
      {RuleFile(S_base), RuleFile(S_corp), RuleFile(S_overlay)} }

\* order of two file names (str.__lt__ on lower-case letters)
RECURSIVE NameLess(_, _)
NameLess(a, b) ==
    IF b = <<>> THEN FALSE
    ELSE IF a = <<>> THEN TRUE
    ELSE LET ra == CHOOSE i \in 1..Len(LowerChars) : LowerChars[i] = Head(a)
             rb == CHOOSE i \in 1..Len(LowerChars) : LowerChars[i] = Head(b)
         IN  IF ra # rb THEN ra < rb ELSE NameLess(Tail(a), Tail(b))

\* enabled_layers.sort(key=lambda layer: (layer.priority, layer.path.name))
RECURSIVE SortLayers(_)
SortLayers(S) ==
    IF S = {} THEN <<>>
    ELSE LET m == CHOOSE x \in S : \A y \in S \ {x} :
                     \/ x.priority < y.priority
                     \/ x.priority = y.priority /\ NameLess(x.name, y.name)
         IN  <<m>> \o SortLayers(S \ {m})

\* _load_rule_layers that keeps the disabled layers
_load_rule_layers_all(files) == SortLayers(files)

\* _load_rule_layers: the enabled layers in (priority, file name) order
_load_rule_layers(files) == SortLayers({f \in files : f.enabled})

\* resources_config of _parse_rule_layer: keys in lower case, a later
\* duplicate replacing an earlier one
ParseResources(pairs) ==
    [k \in {Lower(pairs[i][1]) : i \in 1..Len(pairs)} |->
        LET n == CHOOSE i \in 1..Len(pairs) :
                    /\ Lower(pairs[i][1]) = k
                    /\ \A j \in (i + 1)..Len(pairs) : Lower(pairs[j][1]) # k
        IN  pairs[n][2]]

\* _to_rule raises: no segments in the definition and nothing to inherit
ToRuleRaises(config, fallback_rule) ==
    /\ ~("segments" \in DOMAIN config /\ config.segments # <<>>)
    /\ fallback_rule = <<>>

\* _to_rule never inherits: a field the definition leaves out takes the
\* built-in value
_to_rule_no_fallback(config, fallback_rule, id) ==
    [id |-> id,
     segments |-> IF "segments" \in DOMAIN config THEN config.segments ELSE <<>>,
     max_length |-> IF "max_length" \in DOMAIN config THEN config.max_length ELSE 80,
     require_sanmar_prefix |->
        IF "require_sanmar_prefix" \in DOMAIN config
        THEN config.require_sanmar_prefix ELSE FALSE,
     name_template |->
        IF Truthy(Get(config, "name_template")) THEN config.name_template ELSE None]

\* _to_rule(config, fallback_rule=...), when it does not raise
_to_rule(config, fallback_rule, id) ==
    [id |-> id,
     segments |->
        IF "segments" \in DOMAIN config /\ config.segments # <<>>
        THEN config.segments ELSE fallback_rule[1].segments,
     max_length |->
        IF "max_length" \in DOMAIN config THEN config.max_length
        ELSE IF fallback_rule # <<>> THEN fallback_rule[1].max_length
        ELSE 80,
     require_sanmar_prefix |->
        IF "require_sanmar_prefix" \in DOMAIN config
        THEN config.require_sanmar_prefix
        ELSE IF fallback_rule # <<>> THEN fallback_rule[1].require_sanmar_prefix
        ELSE FALSE,
     name_template |->
        LET name_template ==
               IF Get(config, "name_template") = None /\ fallback_rule # <<>>
               THEN fallback_rule[1].name_template
               ELSE Get(config, "name_template")
        IN  IF Truthy(name_template) THEN name_template ELSE None]

\* one iteration of reload's loop over the layers; i is the layer's position
FoldLayer(acc, layer, i) ==
    IF acc.exc # None THEN acc
    ELSE IF layer.default_config # EmptyDict
            /\ ToRuleRaises(layer.default_config, acc.default_rule)
    THEN [acc EXCEPT !.exc = <<"ValueError", "_to_rule">>]
    ELSE
      LET default_rule ==
             IF layer.default_config # EmptyDict
             THEN <<_to_rule(layer.default_config, acc.default_rule,
                             <<i, "default_rule", <<>>>>)>>
             ELSE acc.default_rule
          resources == ParseResources(layer.resources_config)
      IN  IF default_rule = <<>>
          THEN [acc EXCEPT !.exc = <<"ValueError", "reload">>]
          ELSE [exc |-> None,
                default_rule |-> default_rule,
                resource_rules |->
                   [k \in DOMAIN acc.resource_rules \cup DOMAIN resources |->
                      IF k \in DOMAIN resources
                      THEN _to_rule(resources[k],
                                    IF k \in DOMAIN acc.resource_rules
                                    THEN <<acc.resource_rules[k]>>
                                    ELSE default_rule,
                                    <<i, "resource_rules", k>>)
                      ELSE acc.resource_rules[k]]]

RECURSIVE FoldLayers(_, _, _)
\* for layer in layers: ...
FoldLayers(acc, sorted, i) ==
    IF i > Len(sorted) THEN acc
    ELSE FoldLayers(FoldLayer(acc, sorted[i], i), sorted, i + 1)

\* the locals of reload() before it stores them: the exception it raises, or
\* default_rule and resource_rules
Resolve(files) ==
    LET sorted == _load_rule_layers(files)
        acc == FoldLayers([exc |-> None, default_rule |-> <<>>,
                           resource_rules |-> <<>>], sorted, 1)
    IN  IF sorted = <<>>
        THEN [exc |-> <<"ValueError", "reload">>, default_rule |-> <<>>,
              resource_rules |-> <<>>]
        ELSE IF acc.exc = None /\ acc.default_rule = <<>>
        THEN [acc EXCEPT !.exc = <<"ValueError", "reload">>]
        ELSE acc

\* Resolve for every set of files, computed once
ResolveTable == [files \in RuleDirectories |-> Resolve(files)] @@ <<>>

\* get_rule as one step on a given provider state: the rule or the exception
get_rule(state, resource_type) ==
    LET key == Lower(resource_type)
    IN  IF state.default_rule = <<>>
        THEN [exc |-> <<"RuntimeError", "get_rule">>, rule |-> <<>>]
        ELSE IF key \in DOMAIN state.resource_rules
        THEN [exc |-> None, rule |-> <<state.resource_rules[key]>>]
        ELSE [exc |-> None, rule |-> state.default_rule]

\* list_resource_types: the keys of the resource rules and "default"; the
\* sorted tuple of the code is kept as the set it sorts
list_resource_types(state) == DOMAIN state.resource_rules \cup {S_default}

RuleResourceTypes == {S_Storage_Account, S_default, S_typo}

NoRuleCall ==
    [op |-> "none", resource_type |-> None, exc |-> None, rule |-> <<>>,
     files |-> {}]

\* the files under rules_path change
WriteRuleFiles(files) ==
    /\ files # layers
    /\ layers' = files
    /\ UNCHANGED <<pipeline_vars, slug_vars, last, loaded, reloading, lookup>>

\* a reload that drops the resolved state when it fails
ReloadResolve_clears ==
    /\ reloading.pc = "idle"
    /\ LET r == ResolveTable[layers]
       IN  IF r.exc # None
           THEN /\ last' = [NoRuleCall EXCEPT !.op = "reload", !.exc = r.exc,
                                               !.files = layers]
                /\ loaded' = NotLoaded
                /\ UNCHANGED reloading
           ELSE /\ reloading' = [pc |-> "store_default", replaced |-> loaded,
                                 default_rule |-> r.default_rule,
                                 resource_rules |-> r.resource_rules]
                /\ UNCHANGED <<last, loaded>>
    /\ UNCHANGED <<pipeline_vars, slug_vars, layers, lookup>>

\* JsonRuleProvider(rules_path=...) and reload(), lines 41-63: read the
\* layers and fold them; an exception leaves the provider as it was
ReloadResolve ==
    /\ reloading.pc = "idle"
    /\ LET r == ResolveTable[layers]
       IN  IF r.exc # None
           THEN /\ last' = [NoRuleCall EXCEPT !.op = "reload", !.exc = r.exc,
                                               !.files = layers]
                /\ UNCHANGED reloading
           ELSE /\ reloading' = [pc |-> "store_default", replaced |-> loaded,
                                 default_rule |-> r.default_rule,
                                 resource_rules |-> r.resource_rules]
                /\ UNCHANGED last
    /\ UNCHANGED <<pipeline_vars, slug_vars, layers, loaded, lookup>>

\* reload(), line 65: self._default_rule = default_rule; from here on a
\* lookup in progress may meet the state this reload installs
ReloadStoreDefault ==
    /\ reloading.pc = "store_default"
    /\ loaded' = [loaded EXCEPT !.default_rule = reloading.default_rule]
    /\ reloading' = [pc |-> "store_resources", replaced |-> loaded,
                     default_rule |-> reloading.default_rule,
                     resource_rules |-> reloading.resource_rules]
    /\ lookup' = IF lookup.pc = "idle" THEN lookup
                 ELSE [lookup EXCEPT !.complete = @ \cup
                         {[default_rule |-> reloading.default_rule,
                           resource_rules |-> reloading.resource_rules]}]
    /\ UNCHANGED <<pipeline_vars, slug_vars, layers, last>>

\* reload(), line 66: self._resource_rules = resource_rules
ReloadStoreResources ==
    /\ reloading.pc = "store_resources"
    /\ loaded' = [loaded EXCEPT !.resource_rules = reloading.resource_rules]
    /\ reloading' = NoReload
    /\ last' = [NoRuleCall EXCEPT !.op = "reload"]
    /\ UNCHANGED <<pipeline_vars, slug_vars, layers, lookup>>

\* the complete provider states a lookup starting now overlaps: the stored
\* one, or, between the two stores of reload(), the one before and the one
\* after
CompleteNow ==
    IF reloading.pc = "store_resources"
    THEN {reloading.replaced,
          [loaded EXCEPT !.resource_rules = reloading.resource_rules]}
    ELSE {loaded}

\* the constructor has returned: only then has a caller a provider to ask
Constructed ==
    /\ loaded.default_rule # <<>>
    /\ ~(reloading.pc = "store_resources" /\ reloading.replaced = NotLoaded)

\* get_rule, lines 69-71: the test of self._default_rule
GetRuleEnter(resource_type) ==
    /\ lookup.pc = "idle"
    /\ Constructed
    /\ IF loaded.default_rule = <<>>
       THEN /\ last' = [NoRuleCall EXCEPT !.op = "get_rule",
                          !.resource_type = resource_type,
                          !.exc = <<"RuntimeError", "get_rule">>]
            /\ UNCHANGED lookup
       ELSE /\ lookup' = [pc |-> "test_key", resource_type |-> resource_type,
                          key |-> Lower(resource_type), complete |-> CompleteNow]
            /\ UNCHANGED last
    /\ UNCHANGED <<pipeline_vars, slug_vars, layers, loaded, reloading>>

\* get_rule, line 72: key in self._resource_rules
GetRuleTestKey ==
    /\ lookup.pc = "test_key"
    /\ lookup' = [lookup EXCEPT !.pc =
                    IF lookup.key \in DOMAIN loaded.resource_rules
                    THEN "read_resource" ELSE "read_default"]
    /\ UNCHANGED <<pipeline_vars, slug_vars, layers, loaded, reloading, last>>

\* get_rule, line 73: return self._resource_rules[key]
GetRuleReadResource ==
    /\ lookup.pc = "read_resource"
    /\ last' = [op |-> "get_rule", resource_type |-> lookup.resource_type,
                exc |-> IF lookup.key \in DOMAIN loaded.resource_rules
                        THEN None ELSE <<"KeyError", "get_rule">>,
                rule |-> IF lookup.key \in DOMAIN loaded.resource_rules
                         THEN <<loaded.resource_rules[lookup.key]>> ELSE <<>>,
                files |-> {}]
    /\ lookup' = NoLookup
    /\ UNCHANGED <<pipeline_vars, slug_vars, layers, loaded, reloading>>

\* get_rule, lines 74-76: return self._default_rule
GetRuleReadDefault ==
    /\ lookup.pc = "read_default"
    /\ last' = [op |-> "get_rule", resource_type |-> lookup.resource_type,
                exc |-> None, rule |-> loaded.default_rule, files |-> {}]
    /\ lookup' = NoLookup
    /\ UNCHANGED <<pipeline_vars, slug_vars, layers, loaded, reloading>>

NextRules ==
    \/ \E files \in RuleDirectories : WriteRuleFiles(files)
    \/ ReloadResolve
    \/ ReloadStoreDefault
    \/ ReloadStoreResources
    \/ \E resource_type \in RuleResourceTypes : GetRuleEnter(resource_type)
    \/ GetRuleTestKey
    \/ GetRuleReadResource
    \/ GetRuleReadDefault

SpecRules == Init /\ [][NextRules]_vars

(***************************************************************************)
(* The name builder on its own: core/name_generator.py build_name, called  *)
(* with the rules and inputs below.                                        *)
(***************************************************************************)
S_foo == <<"f","o","o">>
S_erp == <<"e","r","p">>
S_san == <<"s","a","n">>
S_mar == <<"m","a","r">>

Hyphen == Literal(<<"-">>)

\* the templates of the unit test, of providers/us_rules.py and of the
\* comment in test_build_name_adds_prefix_when_required, and templates that
\* place {index_segment} first, after a hyphen, between two values and next
\* to {index}, put the prefix first, or name a placeholder nothing provides
NameTemplates ==
    { <<Field("slug"), Hyphen, Field("region"), Field("index_segment")>>,
      <<Field("region"), Hyphen, Field("environment"), Hyphen, Field("slug"),
        Hyphen, Field("system_short"), Field("index_segment")>>,
      <<Field("region"), Field("environment"), Field("slug"),
        Field("sanmar_prefix"), Field("system_short")>>,
      <<Field("sanmar_prefix"), Hyphen, Field("slug"), Hyphen, Field("region")>>,
      <<Field("index_segment"), Hyphen, Field("slug")>>,
      <<Field("slug"), Hyphen, Field("index_segment"), Field("region")>>,
      <<Field("slug"), Field("index_segment"), Field("region")>>,
      <<Field("slug"), Field("index_segment"), Hyphen, Field("index")>>,
      <<Field("slug"), Hyphen, Field("owner"), Field("index_segment")>> }

BuildRules ==
    {DEFAULT_RULE, STORAGE_ACCOUNT_RULE} \cup
    {[segments |-> <<"slug", "region">>, max_length |-> 50,
      require_sanmar_prefix |-> prefix, name_template |-> template] :
        prefix \in BOOLEAN, template \in NameTemplates}

BuildOptionalInputs ==
    { EmptyDict, [index |-> S_01], [index |-> <<>>], [index |-> None],
      [system_short |-> S_erp], [index |-> S_01, system_short |-> S_erp] }

\* build_name(region, environment, slug, rule, optional_inputs): it has no
\* raise that can be reached (format_map never raises KeyError)
BuildName(region, environment, slug, rule, optional_inputs) ==
    /\ last' = [op |-> "build_name", region |-> region,
                environment |-> environment, slug |-> slug, rule |-> rule,
                optional_inputs |-> optional_inputs, exc |-> None,
                name |-> build_name(region, environment, slug, rule, optional_inputs)]
    /\ UNCHANGED <<pipeline_vars, slug_vars, rule_vars>>

\* the names handed to validate_name: names build_name gives, and names
\* with an upper-case letter, an underscore, or both
ValidatedNames ==
    { S_name, S_wus2devst, S_st \o <<"-">> \o S_WUS2, S_st \o <<"_">> \o S_wus2,
      S_Storage_Account, S_storage_account, S_01, <<>> }

\* validate_name(name, rule)
ValidateName(name, rule) ==
    /\ last' = [op |-> "validate_name", name |-> name, rule |-> rule,
                reports |-> validate_name_reports(name, rule)]
    /\ UNCHANGED <<pipeline_vars, slug_vars, rule_vars>>

NextBuild ==
    \/ \E region \in {S_WUS2, S_mar}, slug \in {S_st, S_san}, rule \in BuildRules,
          optional_inputs \in BuildOptionalInputs :
          BuildName(region, S_dev, slug, rule, optional_inputs)
    \/ \E name \in ValidatedNames,
          rule \in {STORAGE_ACCOUNT_RULE, [DEFAULT_RULE EXCEPT !.max_length = 8]} :
          ValidateName(name, rule)

SpecBuild == Init /\ [][NextBuild]_vars

(***************************************************************************)
(* The audit query filter: app/routes/audit.py.                            *)
(***************************************************************************)
Quote == <<"'">>

\* value.replace("'", "''")
RECURSIVE _escape(_)
_escape(value) ==
    IF value = <<>> THEN <<>>
    ELSE (IF Head(value) = "'" THEN Quote \o Quote ELSE <<Head(value)>>)
         \o _escape(Tail(value))

\* the parameters compared for equality, in the order of lines 32-54, each
\* with the column of its clause
EqualityFilters ==
    << <<"user", <<"U","s","e","r">> >>,
       <<"project", <<"P","r","o","j","e","c","t">> >>,
       <<"purpose", <<"P","u","r","p","o","s","e">> >>,
       <<"region", <<"R","e","g","i","o","n">> >>,
       <<"environment", <<"E","n","v","i","r","o","n","m","e","n","t">> >>,
       <<"action", <<"A","c","t","i","o","n">> >> >>

\* the bounds of the event-time range, in the order of lines 56-62, each with
\* the text its clause starts with
RangeFilters ==
    << <<"start", <<"E","v","e","n","t","T","i","m","e"," ","g","e"," ",
                    "d","a","t","e","t","i","m","e">> >>,
       <<"end", <<"E","v","e","n","t","T","i","m","e"," ","l","e"," ",
                  "d","a","t","e","t","i","m","e">> >> >>

S_eq == <<" ","e","q"," ">>
S_and == <<" ","a","n","d"," ">>

\* " and ".join(filters)
RECURSIVE JoinAnd(_)
JoinAnd(filters) ==
    IF filters = <<>> THEN <<>>
    ELSE IF Len(filters) = 1 THEN filters[1]
    ELSE filters[1] \o S_and \o JoinAnd(Tail(filters))

\* the clauses of lines 32-62, one for every parameter present and not empty
FilterClauses(params) ==
    LET present(k) == k \in DOMAIN params /\ Truthy(params[k])
        eq(i) == IF present(EqualityFilters[i][1])
                 THEN << EqualityFilters[i][2] \o S_eq \o Quote
                         \o _escape(Lower(params[EqualityFilters[i][1]])) \o Quote >>
                 ELSE <<>>
        range(i) == IF present(RangeFilters[i][1])
                    THEN << RangeFilters[i][2] \o Quote
                            \o params[RangeFilters[i][1]] \o Quote >>
                    ELSE <<>>
    IN  eq(1) \o eq(2) \o eq(3) \o eq(4) \o eq(5) \o eq(6) \o range(1) \o range(2)

_build_filter(params) == JoinAnd(FilterClauses(params))

S_2024 == <<"2","0","2","4">>
S_2025 == <<"2","0","2","5">>
\* a range bound that closes its literal and adds a clause
S_inject == <<"2","0","2","4","'"," ","o","r"," ","U","s","e","r"," ","n","e"," ","'">>
S_obrien == <<"O","'","B">>

\* the query strings of the audit_bulk requests of the model: every
\* parameter is absent or carries one of a few values
FilterParams ==
    { MkDict(u \o pj \o re \o pa \o st \o nd) :
        u \in { <<>>, << <<"user", S_alice>> >>, << <<"user", S_obrien>> >> },
        pj \in { <<>>, << <<"project", S_obrien>> >> },
        re \in { <<>>, << <<"region", S_WUS2>>, <<"environment", S_dev>> >> },
        pa \in { <<>>, << <<"purpose", <<>> >>, <<"action", S_claimed>> >> },
        st \in { <<>>, << <<"start", S_2024>> >>, << <<"start", S_inject>> >> },
        nd \in { <<>>, << <<"end", S_2025>> >>, << <<"end", S_obrien>> >> } }

BuildFilter(params) ==
    /\ last' = [op |-> "build_filter", params |-> params,
                filter |-> _build_filter(params)]
    /\ UNCHANGED <<pipeline_vars, slug_vars, rule_vars>>

NextAudit == \E params \in FilterParams : BuildFilter(params)

SpecAudit == Init /\ [][NextAudit]_vars

(***************************************************************************)
(* The storage adapters called on their own: adapters/storage.py           *)
(* claim_name and adapters/release_name.py release_name.                   *)
(***************************************************************************)
\* release_name.py line 22: f"{region}_{environment}"
ReleasePartitionKey(region, environment) == region \o <<"_">> \o environment

\* storage.claim_name without metadata, the table left alone when it raises
storage_claim_name(table, region, environment, name, resource_type, claimed_by) ==
    LET key == EntityKey(region, environment, name)
    IN  IF EntityExists(table, key) /\ table[key].InUse
        THEN [raised |-> TRUE, table |-> table]
        ELSE IF ~CreateEntityAccepted(table, key)
        THEN [raised |-> TRUE, table |-> table]
        ELSE [raised |-> FALSE,
              table |-> WriteEntity(table, key,
                            ClaimEntity(resource_type, claimed_by, EmptyDict))]

\* release_name.release_name: what it returns and the table afterwards
adapter_release_name(table, region, environment, name, released_by) ==
    LET key == <<ReleasePartitionKey(region, environment), name>>
    IN  IF ~EntityExists(table, key)
        THEN [result |-> FALSE, table |-> table]
        ELSE [result |-> TRUE,
              table |-> WriteEntity(table, key,
                            [table[key] EXCEPT
                                !.InUse = FALSE,
                                !.etag = table[key].etag + 1,
                                !.props = Put(table[key].props, "ReleasedBy",
                                              released_by)])]

NoAdapterCall ==
    [op |-> "none", region |-> <<>>, environment |-> <<>>, name |-> <<>>,
     by |-> <<>>, raised |-> FALSE, result |-> FALSE]

\* the (region, environment, name) triples the adapters are called with
AdapterTargets ==
    {S_WUS2, S_wus2, S_eus} \X {S_dev} \X {S_name, S_wus2devst}

StorageClaim(target, claimed_by) ==
    /\ LET r == storage_claim_name(claims, target[1], target[2], target[3],
                                   S_storage_account, claimed_by)
       IN  /\ claims' = r.table
           /\ last' = [NoAdapterCall EXCEPT !.op = "claim_name",
                          !.region = target[1], !.environment = target[2],
                          !.name = target[3], !.by = claimed_by,
                          !.raised = r.raised]
    /\ UNCHANGED <<audit, proc, resp, nreq, permanent, sessions, touch, slug_vars, rule_vars>>

AdapterRelease(target, released_by) ==
    /\ LET r == adapter_release_name(claims, target[1], target[2], target[3],
                                     released_by)
       IN  /\ claims' = r.table
           /\ last' = [NoAdapterCall EXCEPT !.op = "release_name",
                          !.region = target[1], !.environment = target[2],
                          !.name = target[3], !.by = released_by,
                          !.result = r.result]
    /\ UNCHANGED <<audit, proc, resp, nreq, permanent, sessions, touch, slug_vars, rule_vars>>

NextAdapters ==
    \/ \E target \in AdapterTargets, claimed_by \in {S_alice, S_Bob} :
          StorageClaim(target, claimed_by)
    \/ \E target \in AdapterTargets, released_by \in {S_alice, S_root} :
          AdapterRelease(target, released_by)

SpecAdapters == Init /\ [][NextAdapters]_vars

(***************************************************************************)
(* Slug sync and slug lookup on the SlugMappings table:                    *)
(* adapters/slug_loader.py and adapters/slug.py.                           *)
(***************************************************************************)
S_rg == <<"r","g">>
S_resource_group == <<"r","e","s","o","u","r","c","e","_","g","r","o","u","p">>
S_resource_space_group == <<"r","e","s","o","u","r","c","e"," ","g","r","o","u","p">>
S_Key_Vault == <<"K","e","y","_","V","a","u","l","t">>
S_key_space_vault == <<"k","e","y"," ","v","a","u","l","t">>
S_kv == <<"k","v">>

\* what get_all_remote_slugs can return: slug -> resource type
RemoteSlugs ==
    { MkDict(a \o b \o c \o d) :
        a \in { <<>>, << <<S_rg, S_resource_group>> >> },
        b \in { <<>>, << <<S_kv, S_Key_Vault>> >> },
        c \in { <<>>, << <<S_vm, S_vm>> >> },
        d \in { <<>>, << <<S_st, S_storage_account>> >> } }

\* the entity of lines 46-55
SlugEntity(slug, resource_type) ==
    [RowKey |-> slug, Slug |-> slug, ResourceType |-> Lower(resource_type),
     FullName |-> ReplaceChar(Lower(resource_type), "_", " ")]

\* the table after the upserts of lines 45-60
sync_slug_definitions(table, slugs) ==
    [k \in DOMAIN table \cup DOMAIN slugs |->
        IF k \in DOMAIN slugs THEN SlugEntity(k, slugs[k]) ELSE table[k]]

\* adapters.slug.get_slug on a table: query_entities(FullName eq canonical)
\* and the slug of its first entity; a query with several entities may hand
\* over any of them first
adapter_get_slug(table, resource_type) ==
    LET canonical == CanonicalResourceType(resource_type)
        entities == {k \in DOMAIN table : table[k].FullName = canonical}
    IN  IF entities = {}
        THEN {[returned |-> FALSE, slug |-> None]}
        ELSE {[returned |-> TRUE, slug |-> table[k].Slug] : k \in entities}

NoTableCall == [op |-> "none", resource_type |-> None, returned |-> FALSE, slug |-> None]

SyncSlugDefinitions(slugs) ==
    /\ slug_table' = sync_slug_definitions(slug_table, slugs)
    /\ last' = [NoTableCall EXCEPT !.op = "sync_slug_definitions"]
    /\ UNCHANGED <<pipeline_vars, providers, scan, rule_vars>>

AdapterGetSlug(resource_type) ==
    /\ \E r \in adapter_get_slug(slug_table, resource_type) :
          last' = [op |-> "get_slug", resource_type |-> resource_type,
                   returned |-> r.returned, slug |-> r.slug]
    /\ UNCHANGED <<pipeline_vars, slug_vars, rule_vars>>

\* the resource types looked up: underscore and space forms
LookupTypes ==
    {S_resource_group, S_resource_space_group, S_Key_Vault, S_key_space_vault, S_vm,
     S_storage_account, S_typo}

NextSlugSync ==
    \/ \E slugs \in RemoteSlugs : SyncSlugDefinitions(slugs)
    \/ \E resource_type \in LookupTypes : AdapterGetSlug(resource_type)

SpecSlugSync == Init /\ [][NextSlugSync]_vars

(***************************************************************************)
(* Properties of the claim and release routes (under Spec).                *)
(***************************************************************************)
InSeq(x, seq) == \E i \in 1..Len(seq) : seq[i] = x

\* the row of key is stored and marked in use
StoredInUse(key) == key \in DOMAIN claims /\ claims[key].InUse

\* the payload generate_and_claim_name works on once the caller's defaults
\* are merged in
MergedPayload(caller, payload) ==
    apply_defaults(Without(payload, SessionFields),
                   get_defaults(permanent, sessions, caller.user,
                                PayloadSession(payload), 0))

C2_SingleWinner ==
    [][\A p \in Procs :
          (proc[p].pc = "claim_create" /\ proc'[p].pc # "claim_create")
          => IF proc[p].key \in DOMAIN claims
             THEN claims' = claims /\ proc'[p].pc = "idle" /\ ~resp'.persisted
             ELSE /\ StoredInUse(proc[p].key)'
                  /\ Lower(claims'[proc[p].key].props["ClaimedBy"])
                        = Lower(proc[p].user)]_vars

\* C3: a claim request that found the row of its name stored released (not
\* in use), in its uniqueness check and again in claim_name, and comes to
\* its write with the row still as it found it is persisted: the row is in use again, claimed by the request's caller.
C3_ReleasedNameClaimable ==
    [][\A p \in Procs :
          ( /\ proc[p].pc = "claim_create"
            /\ proc'[p].pc # "claim_create"
            /\ proc[p].key \in DOMAIN claims
            /\ ~claims[proc[p].key].InUse
            /\ proc[p].checked = claims[proc[p].key]
            /\ proc[p].snap = claims[proc[p].key] )
          => /\ StoredInUse(proc[p].key)'
             /\ Lower(claims'[proc[p].key].props["ClaimedBy"]) = Lower(proc[p].user)]_vars

\* the caller holds an elevated role, or is the claimant or the releaser
\* the record names
MayRelease(roles, user_id, entity) ==
    \/ "admin" \in roles
    \/ "manager" \in roles
    \/ /\ "ClaimedBy" \in DOMAIN entity.props
       /\ Lower(entity.props["ClaimedBy"]) = Lower(user_id)
    \/ /\ "ReleasedBy" \in DOMAIN entity.props
       /\ Lower(entity.props["ReleasedBy"]) = Lower(user_id)

\* C4: a release changes a stored claim only for a caller who holds an
\* elevated role or is the claimant or the releaser the record names.
C4_ReleaseOnlyByAuthorized ==
    [][\A p \in Procs :
          (proc[p].pc = "rel_update" /\ claims' # claims)
          => MayRelease(proc[p].roles, proc[p].user, claims[proc[p].key])]_vars

\* C5: a release whose record changed between its read and its write is
\* rejected: the stored claims stay as they are and the caller gets 409.
C5_StaleReleaseIsConflict ==
    [][\A p \in Procs :
          ( /\ proc[p].pc = "rel_update"
            /\ proc'[p].pc # "rel_update"
            /\ claims[proc[p].key].etag # proc[p].snap.etag )
          => /\ claims' = claims
             /\ resp'.id = proc[p].id
             /\ resp'.status = 409]_vars

\* C6: a claim whose insert the table rejected (create_entity was called
\* and raised ResourceExistsError) is answered 409.
C6_RejectedInsertIsConflict ==
    ( /\ resp.op = "claim"
      /\ resp.exc = "ResourceExistsError"
      /\ InSeq("create_entity", resp.calls) )
    => resp.status = 409

\* C7: a request whose claim or release was persisted is acknowledged as
\* successful (201 for a claim, 200 for a release), whatever happened to
\* its audit write.
C7_AuditFailureStillAcknowledged ==
    resp.persisted => resp.status = (IF resp.op = "claim" THEN 201 ELSE 200)

\* a required field as _normalise_payload sees it: resource_type may come
\* under its alias resourceType when the payload has no resource_type key
RequiredValue(merged, field) ==
    IF field = "resource_type" /\ "resource_type" \notin DOMAIN merged
    THEN Get(merged, "resourceType")
    ELSE Get(merged, field)

\* C8: a claim request ends with InvalidRequestError (400) exactly when one
\* of resource_type, region, environment is absent or blank (None or empty)
\* after the defaults are merged; the error names every such field and no
\* other, no rule or slug is resolved, and nothing is persisted or audited.
C8_EveryMissingFieldNamed ==
    [][\A p \in Procs, caller \in OneWorkerCallers, payload \in ClaimPayloads :
          LET merged == MergedPayload(caller, payload)
              blank == {f \in {"resource_type", "region", "environment"} :
                          RequiredValue(merged, f) \in {None, <<>>}}
          IN  (ClaimStart(p, caller, payload, 0)
               /\ RoleAllowed(caller.roles, "contributor"))
              => IF blank # {}
                 THEN /\ proc'[p].pc = "idle"
                      /\ resp'.id = nreq'
                      /\ resp'.exc = "InvalidRequestError"
                      /\ resp'.status = 400
                      /\ {resp'.missing[i] : i \in 1..Len(resp'.missing)} = blank
                      /\ Len(resp'.missing) = Cardinality(blank)
                      /\ resp'.calls = <<>>
                      /\ ~resp'.persisted
                      /\ claims' = claims
                      /\ audit' = audit
                 ELSE \/ proc'[p].pc = "claim_get"
                      \/ resp'.id = nreq' /\ resp'.exc # "InvalidRequestError"]_vars

\* C8 happens: a claim was refused with more than one field named.
C8_Witness ==
    /\ resp.op = "claim"
    /\ resp.exc = "InvalidRequestError"
    /\ Len(resp.missing) >= 2

(***************************************************************************)
(* Properties of the user-defaults service (under SpecDefaults).           *)
(***************************************************************************)
\* what the claim says apply_defaults returns for the call (user_id,
\* session_id, payload, now) made in the current state; without strict, a
\* key the payload carries blank and no default defines keeps its payload
\* value, with strict it is absent
PrecedenceHolds(user_id, session_id, payload, now, result, strict) ==
    LET k == <<user_id, session_id>>
        active == /\ session_id \notin {None, <<>>}
                  /\ k \in DOMAIN sessions
                  /\ now - sessions[k].last_seen <= SessionTimeout
        sv == IF active THEN sessions[k].values ELSE EmptyDict
        pv == IF user_id \in DOMAIN permanent THEN permanent[user_id] ELSE EmptyDict
        own(key) == key \in DOMAIN payload /\ payload[key] \notin {None, <<>>}
        has(key, v) == key \in DOMAIN result /\ result[key] = v
    IN  \A key \in DOMAIN payload \cup DOMAIN sv \cup DOMAIN pv \cup DOMAIN result :
            IF own(key) THEN has(key, payload[key])
            ELSE IF key \in DOMAIN sv THEN has(key, sv[key])
            ELSE IF key \in DOMAIN pv THEN has(key, pv[key])
            ELSE IF ~strict /\ key \in DOMAIN payload THEN has(key, payload[key])
            ELSE key \notin DOMAIN result

\* C9 as amended: for every key the result of apply_defaults is the
\* payload's own non-blank value, else the active session's value, else the
\* permanent default; a key defined by none of these is absent unless the
\* payload carried it blank, and then it keeps the payload's blank value.
C9_DefaultsPrecedence ==
    [][\A u \in DefaultsUsers, sid \in DefaultsSessions \cup {None},
          payload \in DefaultsPayloads, now \in 0..MaxTime :
          ApplyDefaults(u, sid, payload, now)
          => PrecedenceHolds(u, sid, payload, now, last'.result, FALSE)]_vars

\* C9 as stated: ... and a key defined by none of these is absent.
C9_AsStated ==
    [][\A u \in DefaultsUsers, sid \in DefaultsSessions \cup {None},
          payload \in DefaultsPayloads, now \in 0..MaxTime :
          ApplyDefaults(u, sid, payload, now)
          => PrecedenceHolds(u, sid, payload, now, last'.result, TRUE)]_vars

\* C9 happens: apply_defaults filled a key the payload carried blank from
\* the session it touched, over a different permanent default.
C9_Witness ==
    /\ last.op = "apply_defaults"
    /\ "environment" \in DOMAIN last.payload
    /\ last.payload["environment"] \in {None, <<>>}
    /\ last.session = S_s1
    /\ <<S_alice, S_s1>> \in DOMAIN sessions
    /\ sessions[<<S_alice, S_s1>>].last_seen = last.now
    /\ "environment" \in DOMAIN sessions[<<S_alice, S_s1>>].values
    /\ S_alice \in DOMAIN permanent
    /\ "environment" \in DOMAIN permanent[S_alice]
    /\ permanent[S_alice]["environment"] # sessions[<<S_alice, S_s1>>].values["environment"]
    /\ last.result["environment"] = sessions[<<S_alice, S_s1>>].values["environment"]

\* C10: get_defaults for a stored session seen more than SessionTimeout
\* before now returns the permanent defaults alone and deletes the session;
\* a lookup of a session that is not stored returns the permanent defaults
\* alone at any time; only set_session_defaults stores a session that was
\* not stored; a session of age at most SessionTimeout stays stored.
C10_ExpiredSessionEvicted ==
    [][\A u \in DefaultsUsers, sid \in DefaultsSessions :
          LET k == <<u, sid>>
              pv == IF u \in DOMAIN permanent THEN permanent[u] ELSE EmptyDict
          IN  /\ \A now \in 0..MaxTime :
                    GetDefaults(u, sid, now)
                    => IF k \notin DOMAIN sessions
                       THEN last'.result = pv /\ k \notin DOMAIN sessions'
                       ELSE IF now - sessions[k].last_seen > SessionTimeout
                       THEN last'.result = pv /\ k \notin DOMAIN sessions'
                       ELSE k \in DOMAIN sessions'
              /\ (k \notin DOMAIN sessions /\ k \in DOMAIN sessions')
                    => last'.op = "set_session_defaults"]_vars

\* C10 happens: get_defaults found the session expired, and it is gone.
C10_Witness ==
    /\ last.op = "get_defaults"
    /\ last.expired
    /\ last.session = S_s1
    /\ <<S_alice, S_s1>> \notin DOMAIN sessions

\* C11: get_defaults on a stored session whose age is at most
\* SessionTimeout sets the session's last-seen time to the call's now and
\* leaves its values as stored, so the next read within SessionTimeout of
\* this one finds it in time again.
C11_TouchOnRead ==
    [][\A u \in DefaultsUsers, sid \in DefaultsSessions, now \in 0..MaxTime :
          LET k == <<u, sid>>
          IN  ( /\ GetDefaults(u, sid, now)
                /\ k \in DOMAIN sessions
                /\ now - sessions[k].last_seen <= SessionTimeout )
              => /\ k \in DOMAIN sessions'
                 /\ sessions'[k].last_seen = now
                 /\ sessions'[k].values = sessions[k].values]_vars

\* C11 happens: a read later than SessionTimeout after time 0 found the
\* session in time, returned its values and left it touched.
C11_Witness ==
    /\ last.op = "get_defaults"
    /\ last.session = S_s1
    /\ ~last.expired
    /\ last.now > SessionTimeout + 1
    /\ <<S_alice, S_s1>> \in DOMAIN sessions
    /\ sessions[<<S_alice, S_s1>>].last_seen = last.now
    /\ sessions[<<S_alice, S_s1>>].values # EmptyDict
    /\ "environment" \in DOMAIN last.result
    /\ last.result["environment"] = S_tst

(***************************************************************************)
(* Properties of the slug service (under SpecSlug).                        *)
(***************************************************************************)
\* the positions of the chain whose provider returns a non-empty slug
HitPositions(chain, resource_type) ==
    {i \in 1..Len(chain) :
        /\ ProviderOutcome(chain[i], resource_type).kind = "return"
        /\ ProviderOutcome(chain[i], resource_type).slug \notin {None, <<>>}}

\* the positions of the chain whose provider raises
RaisePositions(chain, resource_type) ==
    {i \in 1..Len(chain) : ProviderOutcome(chain[i], resource_type).kind = "raise"}

MinOf(S) == CHOOSE i \in S : \A j \in S : i <= j
MaxOf(S) == CHOOSE i \in S : \A j \in S : j <= i

C13_LastErrorRaised ==
    [][\A rt \in SlugResourceTypes :
          (GetSlug(rt) /\ HitPositions(providers, rt) = {})
          => /\ ~last'.returned
             /\ last'.calls = providers
             /\ IF RaisePositions(providers, rt) # {}
                THEN last'.exc =
                       ProviderOutcome(providers[MaxOf(RaisePositions(providers, rt))], rt).exc
                ELSE last'.exc = SlugNotFound]_vars

\* C13 happens: two providers raised different errors and a later one
\* returned empty; the second error came out.
C13_Witness ==
    /\ last.op = "get_slug"
    /\ last.resource_type = S_typo
    /\ last.chain = <<"table", "broken", "blank">>
    /\ ~last.returned
    /\ last.exc = <<"RuntimeError", "broken">>

(***************************************************************************)
(* Properties of the JSON rule provider (under SpecRules).                 *)
(***************************************************************************)
EnabledLayers(files) == {f \in files : f.enabled}

\* g comes before f in ascending (priority, file name) order
LayerBefore(g, f) ==
    \/ g.priority < f.priority
    \/ g.priority = f.priority /\ NameLess(g.name, f.name)

HighestLayer(S) == CHOOSE f \in S : \A g \in S \ {f} : LayerBefore(g, f)
LowestLayer(S) == CHOOSE f \in S : \A g \in S \ {f} : LayerBefore(f, g)

RuleFields == {"segments", "max_length", "require_sanmar_prefix", "name_template"}

\* the rule definition sets the field (an empty segment list sets nothing)
SetsField(config, field) ==
    /\ field \in DOMAIN config
    /\ field = "segments" => config[field] # <<>>

\* the value a field has when no layer at all sets it
BuiltInValue(field) ==
    CASE field = "max_length" -> 80
      [] field = "require_sanmar_prefix" -> FALSE
      [] OTHER -> None

\* the definition a layer gives for a resource type, EmptyDict if none
LayerResource(f, key) ==
    LET given == {i \in 1..Len(f.resources_config) :
                     Lower(f.resources_config[i][1]) = key}
    IN  IF given = {} THEN EmptyDict
        ELSE f.resources_config[CHOOSE i \in given : \A j \in given : j <= i][2]

DefinesResource(f, key) ==
    \E i \in 1..Len(f.resources_config) : Lower(f.resources_config[i][1]) = key

\* a field of the default rule as merged from the layers up to and with f
MergedDefaultField(files, f, field) ==
    LET setters == {g \in EnabledLayers(files) :
                       /\ g = f \/ LayerBefore(g, f)
                       /\ SetsField(g.default_config, field)}
    IN  IF setters = {} THEN BuiltInValue(field)
        ELSE HighestLayer(setters).default_config[field]

\* a field of a resource's rule: from the highest layer that sets it for the
\* resource, else from the default merged up to the lowest layer that
\* defines the resource
MergedResourceField(files, key, field) ==
    LET definers == {g \in EnabledLayers(files) : DefinesResource(g, key)}
        setters == {g \in definers : SetsField(LayerResource(g, key), field)}
    IN  IF setters # {} THEN LayerResource(HighestLayer(setters), key)[field]
        ELSE MergedDefaultField(files, LowestLayer(definers), field)

\* C14: a reload that succeeds resolves, field by field, the default rule to
\* the value of the highest enabled layer in (priority, file name) order that
\* sets the field, and each resource's rule to the value of the highest
\* enabled layer that sets the field for that resource; a field no layer
\* sets for the resource is inherited from the layers merged below.
C14_LayersMergeByPriority ==
    [][(ReloadResolve /\ ResolveTable[layers].exc = None)
       => /\ reloading'.pc = "store_default"
          /\ \A field \in RuleFields :
                reloading'.default_rule[1][field] =
                   MergedDefaultField(layers, HighestLayer(EnabledLayers(layers)), field)
          /\ DOMAIN reloading'.resource_rules =
                {key \in {S_storage_account, S_alpha, S_default} :
                    \E g \in EnabledLayers(layers) : DefinesResource(g, key)}
          /\ \A key \in DOMAIN reloading'.resource_rules, field \in RuleFields :
                reloading'.resource_rules[key][field] =
                   MergedResourceField(layers, key, field)]_vars

\* C14 happens: the priority-0 file and the priority-10 overlay were folded;
\* storage_account has the overlay's max_length and prefix flag and the base
\* file's segments.
C14_Witness ==
    /\ reloading.pc = "store_default"
    /\ layers = {RuleFile(S_base), RuleFile(S_overlay)}
    /\ S_storage_account \in DOMAIN reloading.resource_rules
    /\ reloading.resource_rules[S_storage_account].max_length = 30
    /\ reloading.resource_rules[S_storage_account].require_sanmar_prefix
    /\ reloading.resource_rules[S_storage_account].segments =
          <<"slug", "region", "environment">>

\* C15: construction or reload raises ValueError, and installs nothing, when
\* no enabled layer defines a default rule, and when an enabled layer defines
\* resources while neither it nor an enabled layer before it defines a
\* default; a disabled layer's default does not count.
C15_DefaultRequired ==
    [][( /\ ReloadResolve
         /\ \/ \A f \in EnabledLayers(layers) : f.default_config = EmptyDict
            \/ \E f \in EnabledLayers(layers) :
                  /\ f.resources_config # <<>>
                  /\ \A g \in EnabledLayers(layers) :
                        (g = f \/ LayerBefore(g, f)) => g.default_config = EmptyDict )
       => /\ last'.op = "reload"
          /\ last'.exc = <<"ValueError", "reload">>
          /\ reloading'.pc = "idle"
          /\ loaded' = loaded]_vars

\* C15 happens: construction failed on a directory whose lower file (by
\* file name, at equal priority) has resources only.
C15_Witness ==
    /\ last.op = "reload"
    /\ last.exc = <<"ValueError", "reload">>
    /\ last.files = {RuleFile(S_alpha), RuleFile(S_base)}
    /\ loaded = NotLoaded
    /\ reloading.pc = "idle"

\* C16: a get_rule call that runs while reload() runs returns what one
\* complete provider state it overlapped (the one before the reload or the
\* one after) returns for its argument.
C16_LookupSeesCompleteState ==
    [][(GetRuleReadResource \/ GetRuleReadDefault)
       => \E state \in lookup.complete :
             get_rule(state, lookup.resource_type) =
                [exc |-> last'.exc, rule |-> last'.rule]]_vars

\* C17: whatever the letter case of the argument, get_rule returns the same
\* rule object, and for a type without a rule of its own the object it
\* returns is the one get_rule("default") returns; for the JSON provider in
\* every loaded state and for the dictionary provider.
C17_UnknownTypeIsDefault ==
    /\ load_naming_rule(S_Storage_Account) = load_naming_rule(S_storage_account)
    /\ load_naming_rule(S_typo) = load_naming_rule(S_default)
    /\ (Constructed /\ reloading.pc # "store_resources")
       => /\ get_rule(loaded, S_Storage_Account) = get_rule(loaded, S_storage_account)
          /\ get_rule(loaded, S_typo) = get_rule(loaded, S_default)

(***************************************************************************)
(* Properties of the name builder (under SpecBuild).                       *)
(***************************************************************************)
NoStrayHyphen(name) ==
    /\ name # <<>> => name[1] # "-" /\ name[Len(name)] # "-"
    /\ \A i \in 1..(Len(name) - 1) : ~(name[i] = "-" /\ name[i + 1] = "-")

\* longer is shorter with piece inserted at one place
InsertedOnce(shorter, longer, piece) ==
    \E i \in 0..Len(shorter) :
        longer = SubSeq(shorter, 1, i) \o piece \o SubSeq(shorter, i + 1, Len(shorter))

\* the latest call was on the template path with {index_segment} in the
\* template and no (or an empty) index among the optional inputs
IndexOmitted ==
    /\ last.op = "build_name"
    /\ Truthy(last.rule.name_template)
    /\ HasField(last.rule.name_template, "index_segment")
    /\ ~Truthy(Get(last.optional_inputs, "index"))

\* the name the same call gives with index = "foo"
NameWithFoo ==
    build_name(last.region, last.environment, last.slug, last.rule,
               Put(last.optional_inputs, "index", S_foo))

\* the text rendered before the one {index_segment} of the template
RenderedBefore ==
    LET template == last.rule.name_template
        at == CHOOSE i \in 1..Len(template) : template[i] = Field("index_segment")
    IN  format_map(SubSeq(template, 1, at - 1),
                   _normalise_context(
                      _template_context(last.region, last.environment, last.slug,
                                        last.optional_inputs,
                                        last.rule.require_sanmar_prefix)))

\* the template mentions index once and only as {index_segment}, text that
\* does not end in a hyphen is rendered before it, and the prefix step
\* treats the name without and the name with index alike
InsertionVisible ==
    /\ Cardinality({i \in 1..Len(last.rule.name_template) :
                      last.rule.name_template[i].name \in {"index", "index_segment"}}) = 1
    /\ RenderedBefore # <<>>
    /\ RenderedBefore[Len(RenderedBefore)] # "-"
    /\ (last.rule.require_sanmar_prefix
          /\ ~HasField(last.rule.name_template, "sanmar_prefix"))
       => ( StartsWith(TemplateName(last.region, last.environment, last.slug,
                                    last.rule, last.optional_inputs), S_sanmar)
            <=> StartsWith(TemplateName(last.region, last.environment, last.slug,
                                        last.rule,
                                        Put(last.optional_inputs, "index", S_foo)),
                           S_sanmar) )

RegisteredPlaceholders ==
    {"region", "environment", "slug", "sanmar_prefix",
     "index", "system_short", "index_segment", "system_short_segment"}

\* C19: a template with a placeholder that no context can hold makes
\* build_name fail with ValueError.
C19_UnknownPlaceholderRejected ==
    ( /\ last.op = "build_name"
      /\ Truthy(last.rule.name_template)
      /\ \E i \in 1..Len(last.rule.name_template) :
            /\ last.rule.name_template[i].kind = "field"
            /\ last.rule.name_template[i].name \notin RegisteredPlaceholders )
    => last.exc = <<"ValueError", "build_name">>

\* C20: with require_sanmar_prefix set, the name starts with "sanmar" on the
\* segment path and on the template path when the template does not
\* reference {sanmar_prefix}.
C20_PrefixPresent ==
    ( /\ last.op = "build_name"
      /\ last.rule.require_sanmar_prefix
      /\ Truthy(last.rule.name_template)
            => ~HasField(last.rule.name_template, "sanmar_prefix") )
    => StartsWith(last.name, S_sanmar)

\* C20 as stated: with require_sanmar_prefix set the name starts with
\* "sanmar" on both paths, templates that reference {sanmar_prefix} included.
C20_AsStated ==
    (last.op = "build_name" /\ last.rule.require_sanmar_prefix)
    => StartsWith(last.name, S_sanmar)

\* C20 happens: the prefix was added on the template path; the same inputs
\* on the segment path give a prefixed name too.
C20_Witness ==
    /\ last.op = "build_name"
    /\ last.rule.require_sanmar_prefix
    /\ last.rule.name_template =
          <<Field("slug"), Hyphen, Field("region"), Field("index_segment")>>
    /\ last.slug = S_st
    /\ last.name = S_sanmar \o <<"-">> \o S_st \o <<"-">> \o S_wus2
    /\ StartsWith(build_name(last.region, last.environment, last.slug,
                             STORAGE_ACCOUNT_RULE, last.optional_inputs), S_sanmar)

\* the checks of validate_name a name fails, each taken on the full name
FailedChecks(name, rule) ==
    (IF Len(name) > rule.max_length THEN {"length"} ELSE {})
    \cup (IF ~IsLower(name) THEN {"lowercase"} ELSE {})
    \cup (IF name = <<>> \/ \E i \in 1..Len(name) : ~NameChar(name[i])
          THEN {"characters"} ELSE {})

\* C21: the error of validate_name reports every check the name fails: a
\* name that is too long and has a character outside [a-z0-9-] is reported
\* for its length and for its characters.
C21_EveryFailedCheckReported ==
    last.op = "validate_name"
    => last.reports = FailedChecks(last.name, last.rule)

(***************************************************************************)
(* Properties of the stored metadata (under SpecOneWorker).                *)
(***************************************************************************)
\* the characters section 4.7 calls unsafe for the storage query language
QueryUnsafeChars == {"'", "\"", "<", ">", "|", "*", "\\"}

SanitizedValue(v) ==
    \A i \in 1..Len(v) :
        v[i] \notin RemovedControlChars \cup KeptControlChars \cup QueryUnsafeChars

\* C22: every string value stored in the metadata of a claim or of an audit
\* record has no control character, no tab or newline and no query-unsafe
\* character (quote, angle bracket, pipe, wildcard, backslash).
C22_StoredValuesSanitized ==
    /\ \A n \in DOMAIN claims :
          \A k \in DOMAIN claims[n].props : SanitizedValue(claims[n].props[k])
    /\ \A i \in 1..Len(audit) :
          \A k \in DOMAIN audit[i].props : SanitizedValue(audit[i].props[k])

(***************************************************************************)
(* Properties of the audit query filter (under SpecAudit).                 *)
(***************************************************************************)
\* a literal as the query language reads it: a doubled quote is one quote
RECURSIVE Unescaped(_)
Unescaped(raw) ==
    IF raw = <<>> THEN <<>>
    ELSE IF Len(raw) >= 2 /\ raw[1] = "'" /\ raw[2] = "'"
    THEN Quote \o Unescaped(SubSeq(raw, 3, Len(raw)))
    ELSE <<Head(raw)>> \o Unescaped(Tail(raw))

\* the literals of text from its i-th quote on; quotes holds the positions
\* of the quotes of text, and start is where the open literal began (0 when
\* none is open). A quote opens a literal; inside one, two adjacent quotes
\* are an embedded quote and a single one closes it.
RECURSIVE LiteralsFrom(_, _, _, _)
LiteralsFrom(text, quotes, i, start) ==
    IF i > Len(quotes)
    THEN (IF start = 0 THEN <<>> ELSE << Unescaped(SubSeq(text, start, Len(text))) >>)
    ELSE IF start = 0 THEN LiteralsFrom(text, quotes, i + 1, quotes[i] + 1)
    ELSE IF i < Len(quotes) /\ quotes[i + 1] = quotes[i] + 1
    THEN LiteralsFrom(text, quotes, i + 2, start)
    ELSE << Unescaped(SubSeq(text, start, quotes[i] - 1)) >>
         \o LiteralsFrom(text, quotes, i + 1, 0)

\* the string literals of a filter, in order
Literals(text) ==
    LiteralsFrom(text, SelectSeq([i \in 1..Len(text) |-> i], LAMBDA i : text[i] = "'"), 1, 0)

\* the values the filter is asked to embed, in clause order: the equality
\* parameters lower-cased, the range bounds as given
EmbeddedValues(params) ==
    LET present(k) == k \in DOMAIN params /\ Truthy(params[k])
        eq(i) == IF present(EqualityFilters[i][1])
                 THEN << Lower(params[EqualityFilters[i][1]]) >> ELSE <<>>
        range(i) == IF present(RangeFilters[i][1])
                    THEN << params[RangeFilters[i][1]] >> ELSE <<>>
    IN  eq(1) \o eq(2) \o eq(3) \o eq(4) \o eq(5) \o eq(6) \o range(1) \o range(2)

\* C23: every value embedded in the audit filter, the start and end bounds
\* included, has its quotes doubled: read back as a query, the filter has
\* exactly one string literal per supplied parameter, holding that value.
C23_FilterValuesEscaped ==
    last.op = "build_filter"
        => Literals(last.filter) = EmbeddedValues(last.params)

(***************************************************************************)
(* Properties of the claim pipeline as a whole (under SpecOneWorker).      *)
(***************************************************************************)
\* the collaborators generate_and_claim_name calls, in the order of its text
PipelineOrder ==
    <<"load_naming_rule", "get_slug", "build_name", "validate_name",
      "check_name_exists", "claim_name", "create_entity", "write_audit_log">>

IsPrefix(s, t) == Len(s) <= Len(t) /\ s = SubSeq(t, 1, Len(s))

\* what every step of a claim request does: it appends to the calls made
\* so far, in the fixed order; the claim store changes only at the persist
\* step of a request whose name passed validate_name and the uniqueness
\* check; a "claimed" audit record is written only by a request that has
\* persisted its claim; a request that has not persisted changes neither
\* the claim store nor the audit log
PipelineStep ==
    /\ (nreq' # nreq /\ resp' # resp /\ resp'.op = "claim")
           => /\ IsPrefix(resp'.calls, PipelineOrder)
              /\ Len(resp'.calls) <= 5
              /\ claims' = claims
              /\ audit' = audit
    /\ \A p \in Procs :
       LET before == proc[p]
           after == proc'[p]
       IN  (after # before /\ (before.op = "claim" \/ after.op = "claim"))
           =>
           /\ IsPrefix(after.calls, PipelineOrder)
           /\ resp' # resp => IsPrefix(resp'.calls, PipelineOrder)
           /\ (before.pc # "idle" /\ after.pc # "idle")
                 => /\ IsPrefix(before.calls, after.calls)
                    /\ Len(after.calls) > Len(before.calls) \/ after.pc # before.pc
           /\ before.pc # "idle" /\ after.pc = "idle"
                 => resp'.id = before.id /\ IsPrefix(before.calls, resp'.calls)
           /\ claims' # claims
                 => /\ before.pc = "claim_create"
                    /\ after.persisted
                    /\ validate_name_reports(before.key[2],
                           load_naming_rule(before.resource_type)) = {}
                    /\ ~before.checked.InUse
                    /\ \A k \in DOMAIN claims' :
                          (k \notin DOMAIN claims \/ claims'[k] # claims[k])
                             => k = before.key
           /\ audit' # audit
                 => /\ before.persisted
                    /\ before.pc = "claim_audit"
                    /\ Len(audit') = Len(audit) + 1
                    /\ audit'[Len(audit')].Action = S_claimed
                    /\ audit'[Len(audit')].PartitionKey = before.key[2]
           /\ (~before.persisted /\ ~after.persisted)
                 => claims' = claims /\ audit' = audit

C25_LookupSeesChainAsBegun ==
    last.op = "get_slug" => IsPrefix(last.calls, last.chain)

(***************************************************************************)
(* Properties of the storage adapters (under SpecAdapters).                *)
(***************************************************************************)
\* C26: release_name called for a (region, environment, name) under which
\* claim_name stored a record returns True and leaves that record not in
\* use, with the releaser's identity; it returns False only when no record
\* is stored for the triple.
C26_ReleaseFindsStoredClaim ==
    [][\A target \in AdapterTargets, released_by \in {S_alice, S_root} :
          AdapterRelease(target, released_by)
             => LET key == EntityKey(target[1], target[2], target[3])
                IN  IF EntityExists(claims, key)
                    THEN /\ last'.result
                         /\ ~claims'[key].InUse
                         /\ claims'[key].props["ReleasedBy"] = released_by
                    ELSE ~last'.result /\ claims' = claims]_vars

(***************************************************************************)
(* Properties of the authorization check (under Spec).                     *)
(***************************************************************************)
\* C27: no release request of a caller whose user id is empty and who has
\* no elevated role passes is_authorized: none gets as far as the update of
\* the record, whatever claimant and releaser the record names.
C27_EmptyIdentityNotAuthorized ==
    \A p \in Procs :
        (proc[p].op = "release" /\ proc[p].pc = "rel_update" /\ proc[p].user = <<>>)
            => ("admin" \in proc[p].roles \/ "manager" \in proc[p].roles)

(***************************************************************************)
(* Properties of touch-on-read under concurrent calls (under               *)
(* SpecDefaultsRace).                                                      *)
(***************************************************************************)
\* C28: whatever clear_session and set_session_defaults did since
\* get_defaults read the session, its write changes only the last-seen time
\* (or evicts an expired session): it does not bring back a session that
\* has been cleared and it leaves the values stored at that moment as they
\* are.
C28_TouchKeepsValues ==
    [][GetDefaultsWrite
          => \A k \in DOMAIN sessions' :
                /\ k \in DOMAIN sessions
                /\ sessions'[k].values = sessions[k].values]_vars

(***************************************************************************)
(* Properties of a failed reload (under SpecRules).                        *)
(***************************************************************************)
\* C29: a reload() that fails leaves the provider as it was: get_rule
\* returns the same rule object (or raises the same error) for every
\* resource type, and list_resource_types lists the same types.
C29_FailedReloadKeepsState ==
    [][(ReloadResolve /\ reloading'.pc = "idle")
          => /\ \A rt \in RuleResourceTypes :
                   get_rule(loaded', rt) = get_rule(loaded, rt)
             /\ list_resource_types(loaded') = list_resource_types(loaded)
             /\ last'.op = "reload"
             /\ last'.exc # None]_vars

\* C29 happens: a provider that had loaded its rules, a resource rule among
\* them, was asked to reload from a directory it cannot resolve; the reload
\* failed and the rules loaded before are still there.
C29_Witness ==
    /\ last.op = "reload"
    /\ last.exc # None
    /\ last.files = layers
    /\ reloading.pc = "idle"
    /\ loaded.default_rule # <<>>
    /\ DOMAIN loaded.resource_rules # {}

(***************************************************************************)
(* Properties of slug sync and slug lookup (under SpecSlugSync).           *)
(***************************************************************************)
\* C30: for every row sync_slug_definitions wrote to the SlugMappings
\* table, get_slug called with the row's resource type, in underscore or in
\* space form, finds the row and returns its slug.
C30_LookupFindsSyncedRow ==
    [][\A resource_type \in LookupTypes :
          AdapterGetSlug(resource_type)
             => \A k \in DOMAIN slug_table :
                   slug_table[k].ResourceType = CanonicalResourceType(resource_type)
                      => last'.returned /\ last'.slug = slug_table[k].Slug]_vars

=============================================================================
